---- MODULE Spec2Model ----
(***************************************************************************)
(* Node-health analytics of the pNode dashboard: the rolling per-node      *)
(* history kept in localStorage (clientAnalytics), the health scorer and   *)
(* the single-previous-state detector (lib/health), and the alert          *)
(* materialisation of the ingestion route (api/ingest).                    *)
(*                                                                         *)
(* Numbers.  The code computes in IEEE doubles; the model computes the     *)
(* same quantities exactly, as integer numerators over fixed denominators. *)
(* Time is counted in minutes (60000 ms), latencies stay in ms, uptime in  *)
(* seconds.  An optional field that is undefined is the value Absent.      *)
(***************************************************************************)
EXTENDS Integers, Sequences, FiniteSets, TLC

VARIABLES
    now,        \* Date.now(), in minutes
    storage,    \* window.localStorage[HISTORY_KEY]
    insights,   \* outcome of the last computeClientInsights call
    chain,      \* per node id: every snapshot appended since the store was last empty (history variable)
    lastNodes,  \* the node list of the previous cycle
    cycles,     \* number of computeClientInsights calls so far
    varied,     \* number of steps that departed from the steady poll
    hook,       \* useClientAnalytics: mounted, the ready state, the dependencies of the last commit
    polls,      \* the poll results the page holds, each with the number of cycles run on it
    tabs,       \* per browser tab: the computeClientInsights call in progress there
    node,       \* input node of the pure-function specifications
    hist,       \* input history of the pure-function specifications
    prevNode,   \* input previousNode of the pure-function specifications, or None
    sample,     \* last call of a statistics helper: its arguments and outcome
    health,     \* last calculateHealthScore call: [node, at, result]
    healthRef,  \* an earlier calculateHealthScore call, remembered
    detected,   \* last detectAnomaliesForNode + deriveRiskScore call
    alertTable, \* prisma.alert rows
    snapshotTable, \* prisma.nodeSnapshot rows, by node id
    logTables,  \* row counts of the append-only tables nodeHistory, networkSnapshot, metricSnapshot
    ingested,   \* number of ingestion cycles so far
    patched     \* number of PATCH /api/alerts requests so far

pipelineVars == <<storage, insights, chain, lastNodes, cycles, varied, hook, polls, tabs>>

inputVars == <<node, hist, prevNode, sample>>

ingestVars == <<alertTable, snapshotTable, logTables, ingested, patched>>

vars == <<now, pipelineVars, inputVars, health, healthRef, detected, ingestVars>>

(***************************************************************************)
(* Values                                                                  *)
(***************************************************************************)
Absent == -1

None == [none |-> TRUE]

MAX_HISTORY == 50

NodeIds == {"n1", "n2"}

Defined(x) == x # Absent

\* JavaScript truthiness of an optional number: neither undefined nor 0
Truthy(x) == x # Absent /\ x # 0

Min(a, b) == IF a < b THEN a ELSE b

Max(a, b) == IF a > b THEN a ELSE b

RECURSIVE SumSeq(_)
SumSeq(s) == IF s = <<>> THEN 0 ELSE Head(s) + SumSeq(Tail(s))

RECURSIVE SumSquares(_)
SumSquares(s) == IF s = <<>> THEN 0 ELSE Head(s) * Head(s) + SumSquares(Tail(s))

RECURSIVE FilterTruthy(_)
FilterTruthy(s) ==
    IF s = <<>> THEN <<>>
    ELSE IF Head(s) # 0 THEN <<Head(s)>> \o FilterTruthy(Tail(s))
    ELSE FilterTruthy(Tail(s))

\* the last n elements of s (all of s when it is shorter)
LastN(s, n) == IF Len(s) <= n THEN s ELSE SubSeq(s, Len(s) - n + 1, Len(s))

(***************************************************************************)
(* clientAnalytics: statistics                                             *)
(***************************************************************************)
\* every modelled latency is a multiple of LatencyGrain ms; z-scores are
\* invariant under scaling, so they are computed on latency / LatencyGrain
LatencyGrain == 50

RECURSIVE InGrains(_)
InGrains(s) == IF s = <<>> THEN <<>> ELSE <<Head(s) \div LatencyGrain>> \o InGrains(Tail(s))

\* n * sum(values): mean(values) = SumSeq(values) / Len(values), 0 when empty
meanTimesLen(values) == IF Len(values) = 0 THEN 0 ELSE SumSeq(values)

\* n^2 * (n-1)/n * variance = n * sum(x^2) - sum(x)^2; stddev = 0 below two samples
stddevIsZero(values) ==
    \/ Len(values) < 2
    \/ Len(values) * SumSquares(values) - SumSeq(values) * SumSeq(values) = 0

\* zScoreAtLeast with the standard deviation of a population (variance over n):
\*   z = A / sqrt(B), so z >= num/den  iff  A > 0 and den^2 * A^2 >= num^2 * B
zScoreAtLeastOfPopulation(value, values, num, den) ==
    LET xs == InGrains(values)
        v  == value \div LatencyGrain
        n  == Len(xs)
        A  == n * v - meanTimesLen(xs)
        B  == n * SumSquares(xs) - SumSeq(xs) * SumSeq(xs)
    IN  IF stddevIsZero(xs) THEN FALSE
        ELSE A > 0 /\ den * den * A * A >= num * num * B

\* zScore(value, values) >= num / den, for num, den > 0:
\*   z = (value - mean) / sigma, and 0 when sigma = 0;
\*   with n = Len, S = sum, Q = sum of squares, A = n*value - S, B = n*Q - S^2:
\*   z = A * sqrt(n-1) / sqrt(n * B), so z >= num/den  iff  A > 0 and
\*   den^2 * (n-1) * A^2 >= num^2 * n * B
zScoreAtLeast(value, values, num, den) ==
    LET xs == InGrains(values)
        v  == value \div LatencyGrain
        n  == Len(xs)
        A  == n * v - meanTimesLen(xs)
        B  == n * SumSquares(xs) - SumSeq(xs) * SumSeq(xs)
    IN  IF stddevIsZero(xs) THEN FALSE
        ELSE A > 0 /\ den * den * (n - 1) * A * A >= num * num * n * B

(***************************************************************************)
(* clientAnalytics: the same statistics with the rounding of doubles       *)
(*                                                                         *)
(* A double carries 53 significant bits and every +, / rounds to the       *)
(* nearest such value, ties to the even one.  Here a number carries        *)
(* MantissaBits significant bits under the same rounding rule; the drawn   *)
(* values fill one binade, 2^(MantissaBits-1) .. 2^MantissaBits - 1, so    *)
(* every quantity below is an integer.                                     *)
(***************************************************************************)
MantissaBits == 4

RECURSIVE Pow2(_)
Pow2(k) == IF k = 0 THEN 1 ELSE 2 * Pow2(k - 1)

\* distance between neighbouring representable numbers around q
RECURSIVE ulp(_)
ulp(q) == IF q < Pow2(MantissaBits) THEN 1 ELSE 2 * ulp(q \div 2)

roundHalfEven(num, den) ==
    LET q == num \div den
        r == num % den
    IN  IF 2 * r < den THEN q
        ELSE IF 2 * r > den THEN q + 1
        ELSE IF q % 2 = 0 THEN q ELSE q + 1

\* the representable number nearest to num / den
double(num, den) ==
    LET u == ulp(num \div den) IN u * roundHalfEven(num, den * u)

\* values.reduce((sum, v) => sum + v, 0)
RECURSIVE sumOfDoubles(_, _)
sumOfDoubles(acc, values) ==
    IF values = <<>> THEN acc
    ELSE sumOfDoubles(double(acc + Head(values), 1), Tail(values))

mean(values) ==
    IF Len(values) = 0 THEN 0 ELSE double(sumOfDoubles(0, values), Len(values))

\* stddev(values) === 0.  Below two samples the function returns 0 at once.
\* Otherwise v - m is 0 only for v = m, its square is 0 only then, the sum of
\* the squares is 0 only when each is, and / (n - 1) and Math.sqrt map
\* nothing but 0 to 0.
stddevOfDoublesIsZero(values) ==
    \/ Len(values) < 2
    \/ \A i \in 1..Len(values) : values[i] = mean(values)

\* zScore without its early return on sigma === 0
zScoreOfDoublesUnguarded(value, values) ==
    [isZero |-> ~stddevOfDoublesIsZero(values) /\ value = mean(values),
     dividedByZero |-> stddevOfDoublesIsZero(values)]

\* zScore(value, values): whether it is 0, and whether it divided by a zero sigma
zScoreOfDoubles(value, values) ==
    IF stddevOfDoublesIsZero(values) THEN [isZero |-> TRUE, dividedByZero |-> FALSE]
    ELSE [isZero |-> value = mean(values), dividedByZero |-> FALSE]

\* zScore(value, values) >= num / den, for num, den > 0, the mean m being the
\* rounded one: with d = value - m (exact, the two being close) and Q the
\* sum of the squared differences from m, z = d / sqrt(Q / (n - 1)), so
\* z >= num/den  iff  d > 0 and den^2 * (n-1) * d^2 >= num^2 * Q.  The
\* squares, their sum, the root and the quotient are taken exactly: in
\* doubles they move z by parts in 10^15
zScoreOfDoublesAtLeast(value, values, num, den) ==
    LET n == Len(values)
        d == value - mean(values)
        Q == SumSquares([i \in 1..n |-> values[i] - mean(values)])
    IN  IF stddevOfDoublesIsZero(values) THEN FALSE
        ELSE d > 0 /\ den * den * (n - 1) * d * d >= num * num * Q

(***************************************************************************)
(* analytics page: percentiles                                             *)
(***************************************************************************)
\* the smallest integer >= num / den, for den > 0
Ceil(num, den) == -((-num) \div den)

RECURSIVE insertAscending(_, _)
insertAscending(x, sorted) ==
    IF sorted = <<>> THEN <<x>>
    ELSE IF x <= Head(sorted) THEN <<x>> \o sorted
    ELSE <<Head(sorted)>> \o insertAscending(x, Tail(sorted))

\* values.sort((a, b) => a - b), as the page does before it takes percentiles
RECURSIVE sortAscending(_)
sortAscending(values) ==
    IF values = <<>> THEN <<>>
    ELSE insertAscending(Head(values), sortAscending(Tail(values)))

\* percentile with the rank rounded down
percentileFloor(arr, p) ==
    IF Len(arr) = 0 THEN 0
    ELSE arr[Max(0, (p * Len(arr)) \div 100 - 1) + 1]

\* arr[Math.max(0, Math.ceil((p / 100) * arr.length) - 1)]; arrays count from 0,
\* sequences from 1
percentile(arr, p) ==
    IF Len(arr) = 0 THEN 0
    ELSE arr[Max(0, Ceil(p * Len(arr), 100) - 1) + 1]

(***************************************************************************)
(* prpc: calculateNetworkStats                                             *)
(*                                                                         *)
(* A string is the sequence of its characters; an IPv4 address is the      *)
(* sequence of its four octets.                                            *)
(***************************************************************************)
Digits == {"0", "1", "2", "3", "4", "5", "6", "7", "8", "9"}

unknown == <<"u", "n", "k", "n", "o", "w", "n">>

\* undefined, for a field that holds a string, and for one that holds an address
NoString == <<"undefined">>

NoAddress == <<>>

\* the longest prefix of digits: what a greedy \d+ consumes
RECURSIVE takeDigits(_)
takeDigits(str) ==
    IF str # <<>> /\ Head(str) \in Digits THEN <<Head(str)>> \o takeDigits(Tail(str))
    ELSE <<>>

dropFirst(str, k) == SubSeq(str, k + 1, Len(str))

\* version.match(/^(\d+)\.(\d+)(?:\.\d+)?/): <<major, minor>>, or <<>> for null
versionMatch(version) ==
    LET major == takeDigits(version)
        rest  == dropFirst(version, Len(major))
        minor == IF rest # <<>> /\ Head(rest) = "." THEN takeDigits(Tail(rest)) ELSE <<>>
    IN  IF major # <<>> /\ minor # <<>> THEN <<major, minor>> ELSE <<>>

\* the key one node is counted under, keeping the patch number apart
versionKeyWithPatch(softwareVersion) ==
    IF softwareVersion = NoString \/ softwareVersion = <<>> THEN unknown
    ELSE softwareVersion

\* the key one node is counted under in versionDistribution
versionKey(softwareVersion) ==
    LET version == IF softwareVersion = NoString \/ softwareVersion = <<>>
                   THEN unknown ELSE softwareVersion
    IN  IF version = unknown THEN version
        ELSE IF versionMatch(version) # <<>>
             THEN versionMatch(version)[1] \o <<".">> \o versionMatch(version)[2] \o <<".", "x">>
        ELSE version

\* distribution[key] = (distribution[key] || 0) + 1
bump(distribution, key) ==
    [k \in DOMAIN distribution \cup {key} |->
        IF k = key
        THEN (IF key \in DOMAIN distribution THEN distribution[key] ELSE 0) + 1
        ELSE distribution[k]]

detectRegionFromIP(ip) ==
    IF \/ ip[1] = 192 /\ ip[2] = 168
       \/ ip[1] = 10
       \/ ip[1] = 172
    THEN NoString
    ELSE IF ip[1] >= 1 /\ ip[1] <= 126 THEN <<"U", "S", "A">>
    ELSE IF ip[1] >= 128 /\ ip[1] <= 143 THEN <<"E", "u", "r", "o", "p", "e">>
    ELSE IF ip[1] >= 144 /\ ip[1] <= 159 THEN <<"U", "S", "A">>
    ELSE IF ip[1] >= 160 /\ ip[1] <= 175 THEN <<"A", "s", "i", "a">>
    ELSE IF ip[1] >= 176 /\ ip[1] <= 207 THEN <<"E", "u", "r", "o", "p", "e">>
    ELSE IF ip[1] >= 208 /\ ip[1] <= 223 THEN <<"U", "S", "A">>
    ELSE NoString

\* the key one node is counted under in regionDistribution
regionKey(n) ==
    LET located == IF n.country # NoString /\ n.country # <<>> THEN n.country ELSE n.region
        region  == IF (located = NoString \/ located = <<>>) /\ n.ipAddress # NoAddress
                   THEN detectRegionFromIP(n.ipAddress) ELSE located
    IN  IF region = NoString \/ region = <<>> THEN unknown ELSE region

\* nodes.forEach(node => { ... distribution[key] = (distribution[key] || 0) + 1 })
RECURSIVE distributionOf(_, _)
distributionOf(keys, distribution) ==
    IF keys = <<>> THEN distribution
    ELSE distributionOf(Tail(keys), bump(distribution, Head(keys)))

\* x || 0 for an optional number
orZero(x) == IF Truthy(x) THEN x ELSE 0

\* Math.round(num / den * 100), the average in hundredths
roundedHundredths(num, den) == (200 * num + den) \div (2 * den)

\* the average without the test for an empty selection: 0 / 0 is no number
averageUnguarded(sum, selected) ==
    IF selected > 0 THEN roundedHundredths(sum, selected) ELSE Absent

\* selected > 0 ? sum / selected : 0, rounded to hundredths
average(sum, selected) ==
    IF selected > 0 THEN roundedHundredths(sum, selected) ELSE 0

\* nodesWithPeers that keeps the nodes without peers
withPeersOrNot(nodes) == nodes

\* nodes.filter(n => n.peerCount > 0)
withPeers(nodes) == SelectSeq(nodes, LAMBDA n : n.peerCount > 0)

\* averages are in hundredths: Math.round(average * 100) before the last / 100
calculateNetworkStats(nodes) ==
    LET nodesWithPeers   == withPeers(nodes)
        nodesWithLatency == SelectSeq(nodes, LAMBDA n : n.latency # Absent)
        peerSum    == SumSeq([i \in 1..Len(nodesWithPeers) |-> nodesWithPeers[i].peerCount])
        latencySum == SumSeq([i \in 1..Len(nodesWithLatency) |-> orZero(nodesWithLatency[i].latency)])
    IN  [totalNodes   |-> Len(nodes),
         onlineNodes  |-> Len(SelectSeq(nodes, LAMBDA n : n.status = "online")),
         offlineNodes |-> Len(SelectSeq(nodes, LAMBDA n : n.status = "offline")),
         totalStorageCapacity |->
             SumSeq([i \in 1..Len(nodes) |-> orZero(nodes[i].storageCapacity)]),
         totalStorageUsed |->
             SumSeq([i \in 1..Len(nodes) |-> orZero(nodes[i].storageUsed)]),
         averagePeerCount100 |->
             average(peerSum, Len(nodesWithPeers)),
         averageLatency100 |->
             average(latencySum, Len(nodesWithLatency)),
         versionDistribution |->
             distributionOf([i \in 1..Len(nodes) |-> versionKey(nodes[i].softwareVersion)], <<>>),
         regionDistribution |->
             distributionOf([i \in 1..Len(nodes) |-> regionKey(nodes[i])], <<>>),
         validatorCount |-> Len(SelectSeq(nodes, LAMBDA n : n.isValidator))]

(***************************************************************************)
(* clientAnalytics: snapshots and the rolling history                      *)
(***************************************************************************)
\* toSnapshot that leaves the time of the call out
toSnapshotUnstamped(n, timestamp) ==
    [timestamp |-> 0,
     latency |-> n.latency,
     peerCount |-> n.peerCount,
     storageUsed |-> n.storageUsed,
     storageCapacity |-> n.storageCapacity,
     uptime |-> n.uptime,
     status |-> n.status]

toSnapshot(n, timestamp) ==
    [timestamp |-> timestamp,
     latency |-> n.latency,
     peerCount |-> n.peerCount,
     storageUsed |-> n.storageUsed,
     storageCapacity |-> n.storageCapacity,
     uptime |-> n.uptime,
     status |-> n.status]

\* A loaded store is what JSON.parse returned:
\*   [t |-> "obj", h |-> id -> snapshot array, scalars |-> ids whose value is a number]
\*   [t |-> "num"]   a JSON number,  [t |-> "null"]  the JSON null
EmptyStore == [t |-> "obj", h |-> <<>>, scalars |-> {}]

Store(h) == [t |-> "obj", h |-> h, scalars |-> {}]

\* localStorage holds: nothing, a text JSON.parse rejects, or a JSON text
\* (kept as the value it parses to); "denied" is a storage that cannot be
\* reached at all: access throws, or there is no window (server rendering)
StorageAbsent == [kind |-> "absent"]

StorageGarbage == [kind |-> "garbage"]

StorageDenied == [kind |-> "denied"]

StorageJson(v) == [kind |-> "json", value |-> v]

\* safeParseHistory that falls back on the history the previous call returned
safeParseHistoryLastKnown(raw) ==
    CASE raw.kind = "absent"  -> EmptyStore
      [] raw.kind = "denied"  -> insights.history
      [] raw.kind = "garbage" -> insights.history
      [] raw.kind = "json"    -> raw.value

safeParseHistory(raw) ==
    CASE raw.kind = "absent"  -> EmptyStore
      [] raw.kind = "denied"  -> EmptyStore
      [] raw.kind = "garbage" -> EmptyStore
      [] raw.kind = "json"    -> raw.value

\* a fresh object in place of the copy
spreadNothing(current) == EmptyStore

\* { ...current }: own enumerable properties; a number or null spreads to {}
spread(current) == IF current.t = "obj" THEN current ELSE EmptyStore

\* [...next[id]] throws TypeError when next[id] is a number
updateHistoryThrows(nodes, current) ==
    \E i \in 1..Len(nodes) : nodes[i].id \in spread(current).scalars

\* pushSnapshot without the splice
pushSnapshotUncapped(h, n, timestamp) ==
    LET list   == IF n.id \in DOMAIN h THEN h[n.id] ELSE <<>>
        pushed == Append(list, toSnapshot(n, timestamp))
    IN  [id \in (DOMAIN h) \cup {n.id} |-> IF id = n.id THEN pushed ELSE h[id]]

\* pushSnapshot that drops the newest entries instead of the oldest
pushSnapshotKeepOldest(h, n, timestamp) ==
    LET list   == IF n.id \in DOMAIN h THEN h[n.id] ELSE <<>>
        pushed == Append(list, toSnapshot(n, timestamp))
        capped == IF Len(pushed) > MAX_HISTORY THEN SubSeq(pushed, 1, MAX_HISTORY) ELSE pushed
    IN  [id \in (DOMAIN h) \cup {n.id} |-> IF id = n.id THEN capped ELSE h[id]]

\* one forEach iteration of updateHistory
pushSnapshot(h, n, timestamp) ==
    LET list   == IF n.id \in DOMAIN h THEN h[n.id] ELSE <<>>
        pushed == Append(list, toSnapshot(n, timestamp))
        capped == IF Len(pushed) > MAX_HISTORY THEN LastN(pushed, MAX_HISTORY) ELSE pushed
    IN  [id \in (DOMAIN h) \cup {n.id} |-> IF id = n.id THEN capped ELSE h[id]]

RECURSIVE pushAll(_, _, _)
pushAll(h, nodes, timestamp) ==
    IF nodes = <<>> THEN h
    ELSE pushAll(pushSnapshot(h, Head(nodes), timestamp), Tail(nodes), timestamp)

\* updateHistory that hands the loaded store on without the new snapshots
updateHistoryNoAppend(nodes, current, timestamp) == spread(current)

\* the store updateHistory returns (and hands to persistHistory)
updateHistory(nodes, current, timestamp) ==
    LET base == spread(current)
    IN  [t |-> "obj", h |-> pushAll(base.h, nodes, timestamp), scalars |-> base.scalars]

\* localStorage after persistHistory: setItem may throw (quota exceeded, or
\* access denied as for the read), which is swallowed
\* the catch block of persistHistory swallows whatever setItem throws
persistHistoryRethrows(raw, writeFails) == writeFails \/ raw.kind = "denied"

persistHistoryThrows(raw, writeFails) == FALSE

writeSucceeds(raw, writeFails) == ~writeFails /\ raw.kind # "denied"

\* persistHistory that leaves a store another call has written in between
persistHistoryKeepExisting(raw, history, writeFails) ==
    IF writeSucceeds(raw, writeFails) /\ raw.kind # "json" THEN StorageJson(history) ELSE raw

persistHistory(raw, history, writeFails) ==
    IF writeSucceeds(raw, writeFails) THEN StorageJson(history) ELSE raw

(***************************************************************************)
(* clientAnalytics: history-based detector and risk score                  *)
(***************************************************************************)
Anomaly(id, type, severity, details) ==
    [nodeId |-> id, type |-> type, severity |-> severity, details |-> details]

RECURSIVE latenciesOf(_)
\* history.map((h) => h.latency ?? 0)
latenciesOf(history) ==
    IF history = <<>> THEN <<>>
    ELSE <<IF Defined(Head(history).latency) THEN Head(history).latency ELSE 0>>
         \o latenciesOf(Tail(history))

latencySeries(history) == FilterTruthy(latenciesOf(history))

hasPrevious(history) == Len(history) >= 2

previousOf(history) == history[Len(history) - 1]

offlineAnomaly(n) ==
    IF n.status = "offline"
    THEN <<Anomaly(n.id, "offline", "critical", None)>>
    ELSE <<>>

\* latencyAnomaly that asks for more than four history entries
latencyAnomalyOverFour(n, history) ==
    IF /\ Truthy(n.latency)
       /\ Len(history) > 4
       /\ zScoreAtLeast(n.latency, latencySeries(history), 5, 2)
    THEN <<Anomaly(n.id, "latency_spike",
                   IF zScoreAtLeast(n.latency, latencySeries(history), 3, 1)
                   THEN "high" ELSE "medium",
                   [latency |-> n.latency])>>
    ELSE <<>>

latencyAnomaly(n, history) ==
    IF /\ Truthy(n.latency)
       /\ Len(history) >= 4
       /\ zScoreAtLeast(n.latency, latencySeries(history), 5, 2)
    THEN <<Anomaly(n.id, "latency_spike",
                   IF zScoreAtLeast(n.latency, latencySeries(history), 3, 1)
                   THEN "high" ELSE "medium",
                   [latency |-> n.latency])>>
    ELSE <<>>

\* peerDropAnomaly that compares with the newest history entry
peerDropAnomalyAgainstLatest(n, history) ==
    IF /\ history # <<>>
       /\ Defined(history[Len(history)].peerCount)
       /\ 10 * n.peerCount < 6 * history[Len(history)].peerCount
    THEN <<Anomaly(n.id, "peer_drop", "medium",
                   [previous |-> history[Len(history)].peerCount, current |-> n.peerCount])>>
    ELSE <<>>

\* node.peerCount < previous.peerCount * 0.6
peerDropAnomaly(n, history) ==
    IF /\ hasPrevious(history)
       /\ Defined(previousOf(history).peerCount)
       /\ 10 * n.peerCount < 6 * previousOf(history).peerCount
    THEN <<Anomaly(n.id, "peer_drop", "medium",
                   [previous |-> previousOf(history).peerCount, current |-> n.peerCount])>>
    ELSE <<>>

\* storageAnomaly whose two branches are evaluated independently
storageAnomalyBothBranches(n, history) ==
    IF Truthy(n.storageCapacity) /\ Truthy(n.storageUsed)
    THEN (IF 100 * n.storageUsed >= 90 * n.storageCapacity
          THEN <<Anomaly(n.id, "storage_anomaly",
                         IF 100 * n.storageUsed >= 98 * n.storageCapacity
                         THEN "high" ELSE "medium",
                         [used |-> n.storageUsed, capacity |-> n.storageCapacity])>>
          ELSE <<>>)
         \o (IF /\ hasPrevious(history)
                /\ Truthy(previousOf(history).storageUsed)
                /\ 10 * n.storageUsed > 12 * previousOf(history).storageUsed
             THEN <<Anomaly(n.id, "storage_anomaly", "low",
                            [previous |-> previousOf(history).storageUsed,
                             current |-> n.storageUsed])>>
             ELSE <<>>)
    ELSE <<>>

\* usagePercent = storageUsed / storageCapacity * 100, compared exactly
storageAnomaly(n, history) ==
    IF Truthy(n.storageCapacity) /\ Truthy(n.storageUsed)
    THEN IF 100 * n.storageUsed >= 90 * n.storageCapacity
         THEN <<Anomaly(n.id, "storage_anomaly",
                        IF 100 * n.storageUsed >= 98 * n.storageCapacity
                        THEN "high" ELSE "medium",
                        [used |-> n.storageUsed, capacity |-> n.storageCapacity])>>
         ELSE IF /\ hasPrevious(history)
                 /\ Truthy(previousOf(history).storageUsed)
                 /\ 10 * n.storageUsed > 12 * previousOf(history).storageUsed
         THEN <<Anomaly(n.id, "storage_anomaly", "low",
                        [previous |-> previousOf(history).storageUsed,
                         current |-> n.storageUsed])>>
         ELSE <<>>
    ELSE <<>>

detectAnomaliesForNode(n, history) ==
    IF history = <<>> THEN <<>>
    ELSE offlineAnomaly(n) \o latencyAnomaly(n, history)
         \o peerDropAnomaly(n, history) \o storageAnomaly(n, history)

severityWeights(severity) ==
    CASE severity = "critical" -> 35
      [] severity = "high"     -> 20
      [] severity = "medium"   -> 12
      [] severity = "low"      -> 6
      [] OTHER                 -> 0

RECURSIVE anomalyPenaltyWorst(_)
\* anomalyPenalty that counts the heaviest anomaly only
anomalyPenaltyWorst(anomalies) ==
    IF anomalies = <<>> THEN 0
    ELSE Max(severityWeights(Head(anomalies).severity), anomalyPenaltyWorst(Tail(anomalies)))

RECURSIVE anomalyPenalty(_)
anomalyPenalty(anomalies) ==
    IF anomalies = <<>> THEN 0
    ELSE severityWeights(Head(anomalies).severity) + anomalyPenalty(Tail(anomalies))

riskStatusPenalty(n) == IF n.status = "unknown" THEN 15 ELSE 0

riskLatencyPenalty(n) ==
    IF ~Defined(n.latency) THEN 0
    ELSE IF n.latency > 2000 THEN 30
    ELSE IF n.latency > 1000 THEN 18
    ELSE IF n.latency > 500 THEN 10
    ELSE 0

riskPeerPenalty(n) ==
    IF n.peerCount < 5 THEN 20
    ELSE IF n.peerCount < 10 THEN 10
    ELSE 0

riskStoragePenalty(n) ==
    IF Truthy(n.storageCapacity) /\ Truthy(n.storageUsed)
    THEN IF 100 * n.storageUsed > 95 * n.storageCapacity THEN 25
         ELSE IF 100 * n.storageUsed > 85 * n.storageCapacity THEN 12
         ELSE 0
    ELSE 0

riskUptimePenalty(n) ==
    IF Truthy(n.uptime) /\ n.uptime < 24 * 3600 THEN 10 ELSE 0

\* deriveRiskScore whose offline branch sets the score instead of returning
deriveRiskScoreFallThrough(n, anomalies) ==
    Max(0, Min(100, (IF n.status = "offline" THEN 5 ELSE 100)
                    - riskStatusPenalty(n) - riskLatencyPenalty(n)
                    - riskPeerPenalty(n) - riskStoragePenalty(n)
                    - riskUptimePenalty(n) - anomalyPenalty(anomalies)))

deriveRiskScore(n, anomalies) ==
    IF n.status = "offline" THEN 5
    ELSE Max(0, Min(100, 100 - riskStatusPenalty(n) - riskLatencyPenalty(n)
                             - riskPeerPenalty(n) - riskStoragePenalty(n)
                             - riskUptimePenalty(n) - anomalyPenalty(anomalies)))

getRiskStatusLabel(score) ==
    IF score >= 70 THEN "low"
    ELSE IF score >= 40 THEN "medium"
    ELSE "high"

(***************************************************************************)
(* lib/health: calculateHealthScore                                        *)
(***************************************************************************)
\* lastSeen is a timestamp in minutes, or InvalidDate when new Date(lastSeen)
\* is an Invalid Date (getTime() is NaN, every comparison below is false)
InvalidDate == -2

\* every modelled uptime is a multiple of UptimeGrain seconds, so that the
\* uptime factor (uptime / 86400 / 30 * 100 = uptime / 25920) is a whole
\* number of 36ths
UptimeGrain == (24 * 3600 * 30) \div (100 * 36)

\* 36 * factors.uptime
uptimeFactor36(n) ==
    IF Truthy(n.uptime) THEN Min(3600, n.uptime \div UptimeGrain) ELSE 3600

\* latencyFactor whose lowest band starts above 2000 ms
latencyFactorLate(n) ==
    IF ~Defined(n.latency) THEN 100
    ELSE IF n.latency < 100 THEN 100
    ELSE IF n.latency < 500 THEN 80
    ELSE IF n.latency < 2000 THEN 60
    ELSE 40

latencyFactor(n) ==
    IF ~Defined(n.latency) THEN 100
    ELSE IF n.latency < 100 THEN 100
    ELSE IF n.latency < 500 THEN 80
    ELSE IF n.latency < 1000 THEN 60
    ELSE 40

peerCountFactor(n) ==
    IF n.peerCount < 5 THEN 50
    ELSE IF n.peerCount < 10 THEN 70
    ELSE IF n.peerCount < 20 THEN 85
    ELSE 100

\* lastSeenFactor that decays by the minute instead of in bands
lastSeenFactorDecaying(n, at) ==
    IF n.lastSeen = InvalidDate THEN 30
    ELSE Max(30, Min(100, 100 - (at - n.lastSeen)))

lastSeenFactor(n, at) ==
    IF n.lastSeen = InvalidDate THEN 30
    ELSE IF at - n.lastSeen < 5 THEN 100
    ELSE IF at - n.lastSeen < 15 THEN 80
    ELSE IF at - n.lastSeen < 60 THEN 60
    ELSE 30

storageUsageFactor(n) ==
    IF Truthy(n.storageCapacity) /\ Truthy(n.storageUsed)
    THEN IF 100 * n.storageUsed < 70 * n.storageCapacity THEN 100
         ELSE IF 100 * n.storageUsed < 85 * n.storageCapacity THEN 80
         ELSE IF 100 * n.storageUsed < 95 * n.storageCapacity THEN 60
         ELSE 30
    ELSE 100

\* The running score is kept as a numerator over a denominator that grows
\* by the same factor at every step, applied or skipped:
\*   start 36, uptime *10, latency *5, peers *5, lastSeen *20, storage *20
ScoreDen == 36 * 10 * 5 * 5 * 20 * 20

\* blendUptime as a weighted mean: score * 0.7 + factors.uptime * 0.3, over 360
blendUptimeConvex(num36, n) ==
    IF Truthy(n.uptime) THEN 7 * num36 + 3 * uptimeFactor36(n) ELSE 10 * num36

\* score * 0.3 + factors.uptime * 0.3, over 360
blendUptime(num36, n) ==
    IF Truthy(n.uptime) THEN 3 * num36 + 3 * uptimeFactor36(n) ELSE 10 * num36

\* score * 0.8 + factors.latency * 0.2, over 1800
blendLatency(num360, n) ==
    IF Defined(n.latency) THEN 4 * num360 + latencyFactor(n) * 360 ELSE 5 * num360

\* score * 0.8 + factors.peerCount * 0.2, over 9000
blendPeerCount(num1800, n) == 4 * num1800 + peerCountFactor(n) * 1800

\* score * 0.85 + factors.lastSeen * 0.15, over 180000
blendLastSeen(num9000, n, at) == 17 * num9000 + 3 * lastSeenFactor(n, at) * 9000

\* score * 0.85 + factors.storageUsage * 0.15, over ScoreDen
blendStorage(num180000, n) ==
    IF Truthy(n.storageCapacity) /\ Truthy(n.storageUsed)
    THEN 17 * num180000 + 3 * storageUsageFactor(n) * 180000
    ELSE 20 * num180000

statusCeiling(num, n) ==
    IF n.status = "offline" THEN Min(num, 20 * ScoreDen)
    ELSE IF n.status = "unknown" THEN Min(num, 50 * ScoreDen)
    ELSE num

\* blendedScore that applies the status ceiling to the starting score
blendedScoreCeilingFirst(n, at) ==
    blendStorage(
        blendLastSeen(
            blendPeerCount(
                blendLatency(
                    blendUptime(IF n.status = "offline" THEN 20 * 36
                                ELSE IF n.status = "unknown" THEN 50 * 36
                                ELSE 100 * 36, n), n), n), n, at), n)

\* ScoreDen * score before rounding
blendedScore(n, at) ==
    statusCeiling(
        blendStorage(
            blendLastSeen(
                blendPeerCount(
                    blendLatency(
                        blendUptime(100 * 36, n), n), n), n, at), n), n)

\* Math.round(Math.max(0, Math.min(100, score))): round half up
roundScore(num) ==
    (2 * Max(0, Min(100 * ScoreDen, num)) + ScoreDen) \div (2 * ScoreDen)

\* healthStatus with strict comparisons
healthStatusStrict(finalScore) ==
    IF finalScore > 80 THEN "healthy"
    ELSE IF finalScore > 50 THEN "warning"
    ELSE "critical"

healthStatus(finalScore) ==
    IF finalScore >= 80 THEN "healthy"
    ELSE IF finalScore >= 50 THEN "warning"
    ELSE "critical"

calculateHealthScore(n, at) ==
    LET finalScore == roundScore(blendedScore(n, at))
    IN  [nodeId |-> n.id,
         score |-> finalScore,
         status |-> healthStatus(finalScore),
         factors |-> [uptime36 |-> uptimeFactor36(n),
                      latency |-> latencyFactor(n),
                      peerCount |-> peerCountFactor(n),
                      lastSeen |-> lastSeenFactor(n, at),
                      storageUsage |-> storageUsageFactor(n)]]

(***************************************************************************)
(* clientAnalytics: computeClientInsights, one poll cycle                  *)
(***************************************************************************)
Node(id, status, latency, peerCount, storageUsed, storageCapacity, uptime, lastSeen) ==
    [id |-> id, status |-> status, latency |-> latency, peerCount |-> peerCount,
     storageUsed |-> storageUsed, storageCapacity |-> storageCapacity,
     uptime |-> uptime, lastSeen |-> lastSeen]

\* the node of the spec's scenario
ScenarioNode(id) == Node(id, "online", 1500, 3, 96, 100, 3600, 0)

SteadyNode(id) == Node(id, "online", 100, 12, 50, 100, 2592000, 0)

BareNode(id) == Node(id, "offline", Absent, 0, Absent, Absent, Absent, 0)

\* the node lists a poll delivers
PollLists ==
    { <<>>,
      <<SteadyNode("n1")>>,
      <<SteadyNode("n1"), ScenarioNode("n2")>>,
      <<ScenarioNode("n1"), BareNode("n2")>>,
      <<BareNode("n2")>> }

MaxCycles == 52

\* the poll result may change, and a write may fail, during the first
\* EarlyCycles cycles and from cycle QuietUntil on; in between the poll is steady
EarlyCycles == 1

QuietUntil == 50

MaxTampers == 1

Unsettled == cycles < EarlyCycles \/ cycles >= QuietUntil

idsOf(nodes) == {nodes[i].id : i \in 1..Len(nodes)}

\* the last node of the list with this id (Map.set overwrites)
nodeWithId(nodes, id) ==
    nodes[CHOOSE i \in 1..Len(nodes) :
              nodes[i].id = id /\ \A j \in (i + 1)..Len(nodes) : nodes[j].id # id]

historyFor(history, id) == IF id \in DOMAIN history.h THEN history.h[id] ELSE <<>>

anomalyMapOf(nodes, history) ==
    [id \in idsOf(nodes) |-> detectAnomaliesForNode(nodeWithId(nodes, id), historyFor(history, id))]

riskScoresOf(nodes, history) ==
    [id \in idsOf(nodes) |->
        deriveRiskScore(nodeWithId(nodes, id),
                        detectAnomaliesForNode(nodeWithId(nodes, id), historyFor(history, id)))]

\* the append log that corresponds to a loaded store
chainOf(current, log) ==
    [id \in DOMAIN spread(current).h |-> IF id \in DOMAIN log THEN log[id] ELSE <<>>]

RECURSIVE logAll(_, _, _)
logAll(log, nodes, timestamp) ==
    IF nodes = <<>> THEN log
    ELSE LET n == Head(nodes)
             l == IF n.id \in DOMAIN log THEN log[n.id] ELSE <<>>
         IN  logAll([id \in (DOMAIN log) \cup {n.id} |->
                        IF id = n.id THEN Append(l, toSnapshot(n, timestamp)) ELSE log[id]],
                    Tail(nodes), timestamp)

NoInsights == [threw |-> FALSE, nodes |-> <<>>, at |-> 0, persisted |-> FALSE,
               read |-> "absent", loaded |-> EmptyStore,
               history |-> EmptyStore, log |-> <<>>, riskScores |-> <<>>, anomalyMap |-> <<>>]

computeClientInsights(nodes, writeFails) ==
    LET baseHistory == safeParseHistory(storage)
        history     == updateHistory(nodes, baseHistory, now)
        log         == logAll(chainOf(baseHistory, chain), nodes, now)
    IN  IF updateHistoryThrows(nodes, baseHistory)
        THEN /\ insights' = [NoInsights EXCEPT !.threw = TRUE, !.nodes = nodes, !.at = now,
                                                 !.read = storage.kind,
                                                 !.loaded = baseHistory]
             /\ UNCHANGED <<storage, chain>>
        ELSE IF persistHistoryThrows(storage, writeFails)
        THEN /\ insights' = [NoInsights EXCEPT !.threw = TRUE, !.nodes = nodes, !.at = now,
                                                 !.read = storage.kind,
                                                 !.loaded = baseHistory]
             /\ UNCHANGED <<storage, chain>>
        ELSE /\ storage' = persistHistory(storage, history, writeFails)
             /\ chain' = IF writeSucceeds(storage, writeFails) THEN log ELSE chain
             /\ insights' = [threw |-> FALSE, nodes |-> nodes, at |-> now,
                             persisted |-> writeSucceeds(storage, writeFails),
                             read |-> storage.kind,
                             loaded |-> baseHistory,
                             history |-> history, log |-> log,
                             riskScores |-> riskScoresOf(nodes, history),
                             anomalyMap |-> anomalyMapOf(nodes, history)]

Cycle(nodes, writeFails) ==
    /\ cycles < MaxCycles
    /\ \/ Unsettled
       \/ nodes = lastNodes /\ ~writeFails
    /\ computeClientInsights(nodes, writeFails)
    /\ lastNodes' = nodes
    /\ cycles' = cycles + 1
    /\ now' = now + 1
    /\ UNCHANGED <<varied, hook, polls, tabs, inputVars, health, healthRef, detected, ingestVars>>

\* what another script, an older build or the user can leave under HISTORY_KEY
TamperedValues ==
    { StorageAbsent, StorageGarbage, StorageDenied,
      StorageJson([t |-> "num"]), StorageJson([t |-> "null"]),
      StorageJson([t |-> "obj", h |-> <<>>, scalars |-> {"n1"}]) }

Tamper(raw) ==
    /\ varied < MaxTampers
    /\ Unsettled
    /\ raw # storage
    /\ storage' = raw
    /\ chain' = <<>>
    /\ varied' = varied + 1
    /\ UNCHANGED <<now, insights, lastNodes, cycles, hook, polls, tabs, inputVars, health,
                   healthRef, detected, ingestVars>>

\* useClientAnalytics before its component is mounted; deps are <<nodes, ready>>
\* of the last commit, nodes named by the number of the poll result (0: none)
NoHook == [mounted |-> FALSE, ready |-> FALSE, deps |-> <<0, FALSE>>, commits |-> 0]

Idle == [idle |-> TRUE]

\* the tabs of one browser that show the node table; they share localStorage
Tabs == {"tab1", "tab2"}

\* a tab between two computeClientInsights calls
TabIdle == [pc |-> "idle"]

NoTabs == [t \in Tabs |-> TabIdle]

NoLogRows == [nodeHistory |-> 0, networkSnapshot |-> 0, metricSnapshot |-> 0]

IngestIdle ==
    /\ alertTable = <<>>
    /\ snapshotTable = <<>>
    /\ logTables = NoLogRows
    /\ ingested = 0
    /\ patched = 0

Init ==
    /\ now = 0
    /\ storage = StorageAbsent
    /\ insights = NoInsights
    /\ chain = <<>>
    /\ lastNodes = <<>>
    /\ cycles = 0
    /\ varied = 0
    /\ hook = NoHook
    /\ polls = <<>>
    /\ tabs = NoTabs
    /\ node = Idle
    /\ hist = <<>>
    /\ prevNode = None
    /\ sample = Idle
    /\ health = Idle
    /\ healthRef = Idle
    /\ detected = Idle
    /\ IngestIdle

Next ==
    \/ \E nodes \in PollLists, writeFails \in BOOLEAN : Cycle(nodes, writeFails)
    \/ \E raw \in TamperedValues : Tamper(raw)

Spec == Init /\ [][Next]_vars

(***************************************************************************)
(* The scoring functions applied to drawn inputs                           *)
(***************************************************************************)
Statuses == {"online", "offline", "unknown"}

\* <<storageUsed, storageCapacity>>
StorageInputs ==
    { <<Absent, Absent>>, <<Absent, 100>>, <<50, 100>>, <<70, 100>>, <<85, 100>>,
      <<90, 100>>, <<95, 100>>, <<96, 100>>, <<98, 100>> }

\* the instants of the calls; the drawn nodes were last seen at minute 1500
Instants == {1500, 1504, 1505, 1514, 1515, 1559, 1560, 1561}

ScoreNodes ==
    { Node("n1", st, la, pc, su[1], su[2], up, ls) :
        st \in Statuses,
        la \in {Absent, 0, 50, 100, 500, 550, 1000, 1500, 2050},
        pc \in {3, 5, 10, 20},
        su \in StorageInputs,
        up \in {Absent, 0, 3600, 86400, 2592000},
        ls \in {1500} }

\* the scenario node with a valid and with an unparsable lastSeen
ScenarioNodes ==
    { [ScenarioNode("n1") EXCEPT !.lastSeen = ls] : ls \in {1500, 1550, InvalidDate} }

ProbeNodes ==
    ScenarioNodes \cup
    { [SteadyNode("n1") EXCEPT !.lastSeen = 1500],
      [BareNode("n1") EXCEPT !.lastSeen = 1500],
      Node("n1", "unknown", 50, 20, Absent, Absent, 5184000, 1500) }

\* snapshots a history is drawn from
SnapshotPool ==
    { [timestamp |-> 0, latency |-> 200, peerCount |-> 12, storageUsed |-> 50,
       storageCapacity |-> 100, uptime |-> 3600, status |-> "online"],
      [timestamp |-> 0, latency |-> 400, peerCount |-> 12, storageUsed |-> 50,
       storageCapacity |-> 100, uptime |-> 3600, status |-> "online"],
      [timestamp |-> 0, latency |-> Absent, peerCount |-> 5, storageUsed |-> Absent,
       storageCapacity |-> Absent, uptime |-> Absent, status |-> "offline"],
      [timestamp |-> 0, latency |-> 0, peerCount |-> Absent, storageUsed |-> 0,
       storageCapacity |-> 100, uptime |-> Absent, status |-> "unknown"] }

MaxHistLen == 4

RECURSIVE Histories(_)
Histories(len) ==
    IF len = 0 THEN {<<>>}
    ELSE LET shorter == Histories(len - 1)
         IN  shorter \cup { Append(h, snap) : h \in {g \in shorter : Len(g) = len - 1},
                                               snap \in SnapshotPool }

\* <<storageUsed, storageCapacity>> of the nodes given to the detector
DetectStorage ==
    { <<Absent, 100>>, <<50, Absent>>, <<0, 100>>, <<50, 100>>, <<61, 100>>,
      <<96, 100>>, <<98, 100>> }

DetectNodes ==
    { Node("n1", st, la, pc, su[1], su[2], 3600, 1500) :
        st \in {"online", "offline"},
        la \in {Absent, 0, 450, 500, 550},
        pc \in {3, 7, 8},
        su \in DetectStorage }

AnomalyInputs ==
    { <<>>,
      <<Anomaly("n1", "version_mismatch", "low", None)>>,
      <<Anomaly("n1", "latency_spike", "high", None),
        Anomaly("n1", "peer_drop", "medium", None)>>,
      <<Anomaly("n1", "offline", "critical", None),
        Anomaly("n1", "offline", "critical", None),
        Anomaly("n1", "storage_anomaly", "high", None),
        Anomaly("n1", "storage_anomaly", "high", None)>> }

PipelineIdle ==
    /\ storage = StorageAbsent
    /\ insights = NoInsights
    /\ chain = <<>>
    /\ lastNodes = <<>>
    /\ cycles = 0
    /\ varied = 0
    /\ hook = NoHook
    /\ polls = <<>>
    /\ tabs = NoTabs
    /\ IngestIdle

NothingCalled ==
    /\ prevNode = None
    /\ sample = Idle
    /\ health = Idle
    /\ healthRef = Idle
    /\ detected = Idle

\* a caller evaluates calculateHealthScore(n) at the current instant
HealthCall(n) ==
    /\ health' = [node |-> n, at |-> now, result |-> calculateHealthScore(n, now)]
    /\ UNCHANGED <<now, pipelineVars, inputVars, healthRef, detected, ingestVars>>

\* the observer keeps the outcome of the last call to compare later ones with
HealthRemember ==
    /\ health # Idle
    /\ healthRef # health
    /\ healthRef' = health
    /\ UNCHANGED <<now, pipelineVars, inputVars, health, detected, ingestVars>>

\* time passes
Tick(t) ==
    /\ t > now
    /\ now' = t
    /\ UNCHANGED <<pipelineVars, inputVars, health, healthRef, detected, ingestVars>>

\* the loop body of computeClientInsights for one node and its history
DetectCall ==
    /\ detected' = [by |-> "detector",
                    anomalies |-> detectAnomaliesForNode(node, hist),
                    risk |-> deriveRiskScore(node, detectAnomaliesForNode(node, hist))]
    /\ UNCHANGED <<now, pipelineVars, inputVars, health, healthRef, ingestVars>>

\* deriveRiskScore with an anomaly list of the caller's choosing
RiskCall(anomalies) ==
    /\ detected' = [by |-> "caller",
                    anomalies |-> anomalies,
                    risk |-> deriveRiskScore(node, anomalies)]
    /\ UNCHANGED <<now, pipelineVars, inputVars, health, healthRef, ingestVars>>

\* every node record, once, at every instant
InitHealth ==
    /\ PipelineIdle /\ NothingCalled
    /\ node \in ScoreNodes \cup ScenarioNodes
    /\ hist = <<>>
    /\ now \in Instants

NextHealth == HealthCall(node) /\ health = Idle

SpecHealth == InitHealth /\ [][NextHealth]_vars

\* repeated calls over time, with calls for another node in between
InitTwice ==
    /\ PipelineIdle /\ NothingCalled
    /\ node \in ProbeNodes
    /\ hist = <<>>
    /\ now = 1500

NextTwice ==
    \/ \E n \in {node, SteadyNode("n2")} : HealthCall(n)
    \/ HealthRemember
    \/ \E t \in Instants : Tick(t)

SpecTwice == InitTwice /\ [][NextTwice]_vars

\* the detector and the risk score on drawn nodes and histories
InitDetect ==
    /\ PipelineIdle /\ NothingCalled
    /\ node \in DetectNodes
    /\ hist \in Histories(MaxHistLen)
    /\ now = 1500

NextDetect ==
    \/ DetectCall /\ detected = Idle
    \/ \E anomalies \in AnomalyInputs : RiskCall(anomalies) /\ detected = Idle

SpecDetect == InitDetect /\ [][NextDetect]_vars

\* the risk score on every node record and drawn anomaly lists
InitRisk ==
    /\ PipelineIdle /\ NothingCalled
    /\ node \in ScoreNodes
    /\ hist = <<>>
    /\ now = 1500

NextRisk == \E anomalies \in AnomalyInputs : RiskCall(anomalies) /\ detected = Idle

SpecRisk == InitRisk /\ [][NextRisk]_vars

\* the scenario node under every history and instant
InitScenario ==
    /\ PipelineIdle /\ NothingCalled
    /\ node \in ScenarioNodes
    /\ hist \in Histories(MaxHistLen)
    /\ now \in Instants

NextScenario ==
    \/ HealthCall(node) /\ health = Idle
    \/ DetectCall /\ detected = Idle

SpecScenario == InitScenario /\ [][NextScenario]_vars

(***************************************************************************)
(* useClientAnalytics under the node table of the nodes page               *)
(***************************************************************************)
MaxPolls == 3

MaxCommits == 5

\* A commit of the table with the array of poll result k as its nodes prop.
\* The second effect runs when <<nodes, ready>> differs from the last commit
\* (always on mount, where the first commit has ready = false, the first effect
\* sets it and the commit that follows finds ready changed); it returns early
\* on an empty array and calls computeClientInsights otherwise.
Deliver(k, results) ==
    LET effectRuns == ~hook.mounted \/ hook.deps # <<k, TRUE>>
        nodes      == results[k].nodes
    IN  /\ hook.commits < MaxCommits
        /\ hook' = [mounted |-> TRUE, ready |-> TRUE, deps |-> <<k, TRUE>>,
                    commits |-> hook.commits + 1]
        /\ IF effectRuns /\ Len(nodes) # 0
           THEN /\ computeClientInsights(nodes, FALSE)
                /\ polls' = [results EXCEPT ![k].runs = @ + 1]
                /\ lastNodes' = nodes
                /\ cycles' = cycles + 1
                /\ now' = now + 1
           ELSE /\ polls' = results
                /\ UNCHANGED <<now, storage, insights, chain, lastNodes, cycles>>
        /\ UNCHANGED <<varied, tabs, inputVars, health, healthRef, detected, ingestVars>>

\* a fetch of the page's query returns: a new array, shown at once
Load(nodes) ==
    /\ Len(polls) < MaxPolls
    /\ Deliver(Len(polls) + 1, Append(polls, [nodes |-> nodes, runs |-> 0]))

\* the page turns to a query whose result it still holds (back to a page seen before)
Show(k) ==
    /\ hook.deps[1] # k
    /\ Deliver(k, polls)

\* the table renders again with the array it has
Rerender ==
    /\ hook.mounted
    /\ Deliver(hook.deps[1], polls)

\* the table is taken off the screen (loading skeleton, another route)
Leave ==
    /\ hook.mounted
    /\ hook.commits < MaxCommits
    /\ hook' = [NoHook EXCEPT !.commits = hook.commits + 1]
    /\ UNCHANGED <<now, storage, insights, chain, lastNodes, cycles, varied, polls, tabs,
                   inputVars, health, healthRef, detected, ingestVars>>

InitHook ==
    /\ PipelineIdle /\ NothingCalled
    /\ node = Idle
    /\ hist = <<>>
    /\ now = 0

NextHook ==
    \/ \E nodes \in PollLists : Load(nodes)
    \/ \E k \in 1..Len(polls) : Show(k)
    \/ Rerender
    \/ Leave

SpecHook == InitHook /\ [][NextHook]_vars

(***************************************************************************)
(* computeClientInsights in two tabs: getItem and setItem are the atomic   *)
(* steps, nothing orders the calls of one tab against those of the other   *)
(***************************************************************************)
MaxRounds == 2

\* the store that k cycles of the steady poll, at times 1..k, leave behind
grown(k) ==
    Store([id \in {"n1"} |-> [i \in 1..k |-> toSnapshot(SteadyNode("n1"), i)]])

\* the stores the tabs may find when they start
GrownStores == {StorageAbsent, StorageJson(grown(MAX_HISTORY - 1)), StorageJson(grown(MAX_HISTORY))}

\* the node lists the two tabs poll
OverlapLists ==
    { <<SteadyNode("n1")>>,
      <<SteadyNode("n1"), ScenarioNode("n2")>>,
      <<BareNode("n2")>> }

persistedIn(t) == tabs[t].pc = "done"

\* safeParseHistory, and updateHistory up to its persistHistory call
Begin(t, nodes) ==
    /\ tabs[t].pc = "idle"
    /\ ~updateHistoryThrows(nodes, safeParseHistory(storage))
    /\ tabs' = [tabs EXCEPT ![t] =
                   [pc |-> "loaded", nodes |-> nodes, at |-> now,
                    loaded |-> safeParseHistory(storage),
                    loadedAfter |-> Cardinality({u \in Tabs : persistedIn(u)}),
                    history |-> updateHistory(nodes, safeParseHistory(storage), now)]]
    /\ now' = now + 1
    /\ UNCHANGED <<storage, insights, chain, lastNodes, cycles, varied, hook, polls,
                   inputVars, health, healthRef, detected, ingestVars>>

\* persistHistory: the whole store is written under the key
Persist(t, writeFails) ==
    /\ tabs[t].pc = "loaded"
    /\ storage' = persistHistory(storage, tabs[t].history, writeFails)
    /\ tabs' = [tabs EXCEPT ![t] =
                   [pc |-> "done", nodes |-> tabs[t].nodes, at |-> tabs[t].at,
                    loaded |-> tabs[t].loaded, loadedAfter |-> tabs[t].loadedAfter,
                    history |-> tabs[t].history,
                    wrote |-> writeSucceeds(storage, writeFails),
                    order |-> 1 + Cardinality({u \in Tabs : persistedIn(u)})]]
    /\ UNCHANGED <<now, insights, chain, lastNodes, cycles, varied, hook, polls,
                   inputVars, health, healthRef, detected, ingestVars>>

\* both calls have returned; the next polls start
NextRound ==
    /\ \A t \in Tabs : persistedIn(t)
    /\ cycles < MaxRounds - 1
    /\ tabs' = NoTabs
    /\ cycles' = cycles + 1
    /\ UNCHANGED <<now, storage, insights, chain, lastNodes, varied, hook, polls,
                   inputVars, health, healthRef, detected, ingestVars>>

InitOverlap ==
    /\ storage \in GrownStores
    /\ insights = NoInsights
    /\ chain = <<>>
    /\ lastNodes = <<>>
    /\ cycles = 0
    /\ varied = 0
    /\ hook = NoHook
    /\ polls = <<>>
    /\ tabs = NoTabs
    /\ IngestIdle
    /\ NothingCalled
    /\ node = Idle
    /\ hist = <<>>
    /\ now = 100

NextOverlap ==
    \/ \E t \in Tabs, nodes \in OverlapLists : Begin(t, nodes)
    \/ \E t \in Tabs, writeFails \in BOOLEAN : Persist(t, writeFails)
    \/ NextRound

SpecOverlap == InitOverlap /\ [][NextOverlap]_vars

(***************************************************************************)
(* The statistics helpers applied to drawn inputs                          *)
(***************************************************************************)
Mantissas == Pow2(MantissaBits - 1) .. Pow2(MantissaBits) - 1

MaxSamples == 3

RECURSIVE SeqsUpTo(_, _)
SeqsUpTo(S, len) ==
    IF len = 0 THEN {<<>>}
    ELSE SeqsUpTo(S, len - 1) \cup [1..len -> S]

ZScoreCall(value, values) ==
    /\ sample' = [fn |-> "zScore", value |-> value, values |-> values,
                  sigmaIsZero |-> stddevOfDoublesIsZero(values),
                  z |-> zScoreOfDoubles(value, values)]
    /\ UNCHANGED <<now, pipelineVars, node, hist, prevNode, health, healthRef, detected, ingestVars>>

\* the percentiles the analytics page asks for
Percentiles == {50, 95, 99}

PercentileValues == {10, 20, 30, 40}

MaxValues == 4

\* the page sorts the values of its nodes and takes one percentile of them
PercentileCall(values, p) ==
    /\ sample' = [fn |-> "percentile", values |-> values, p |-> p,
                  sorted |-> sortAscending(values),
                  result |-> percentile(sortAscending(values), p)]
    /\ UNCHANGED <<now, pipelineVars, node, hist, prevNode, health, healthRef, detected, ingestVars>>

\* the fields of a pNode that calculateNetworkStats reads
NetNode(status, isValidator, capacity, used, peerCount, latency, version, country, region, ip) ==
    [status |-> status, isValidator |-> isValidator, storageCapacity |-> capacity,
     storageUsed |-> used, peerCount |-> peerCount, latency |-> latency,
     softwareVersion |-> version, country |-> country, region |-> region, ipAddress |-> ip]

NetNodes ==
    { NetNode("online", TRUE, 100, 40, 5, 100, <<"3", ".", "0", ".", "0">>,
              <<"D", "E">>, NoString, NoAddress),
      NetNode("online", FALSE, Absent, Absent, 0, Absent, <<"3", ".", "0", ".", "1", "2">>,
              NoString, NoString, <<192, 168, 1, 1>>),
      NetNode("offline", FALSE, 100, 0, 3, 0, <<"3", ".", "1", ".", "0">>,
              NoString, NoString, <<8, 8, 8, 8>>),
      NetNode("unknown", FALSE, 50, 50, 4, 250, NoString,
              NoString, <<"B", "Y">>, <<130, 1, 1, 1>>),
      NetNode("online", TRUE, 0, Absent, 8, 50, <<"v", "3", ".", "0">>,
              <<>>, NoString, <<240, 0, 0, 1>>),
      NetNode("online", FALSE, 100, 100, 1, 1000, <<"3">>,
              NoString, NoString, NoAddress),
      NetNode("offline", FALSE, 200, 10, 0, Absent, <<"3", ".", "0", "-", "r", "c">>,
              NoString, NoString, <<165, 2, 2, 2>>),
      NetNode("online", FALSE, 100, 90, 2, 400, <<>>,
              NoString, <<>>, <<10, 0, 0, 7>>) }

MaxNodes == 3

NetworkStatsCall(nodes) ==
    /\ sample' = [fn |-> "calculateNetworkStats", nodes |-> nodes,
                  result |-> calculateNetworkStats(nodes)]
    /\ UNCHANGED <<now, pipelineVars, node, hist, prevNode, health, healthRef, detected, ingestVars>>

InitStats ==
    /\ PipelineIdle /\ NothingCalled
    /\ node = Idle
    /\ hist = <<>>
    /\ now = 1500

NextStats ==
    \/ /\ sample = Idle
       /\ \E value \in Mantissas, values \in SeqsUpTo(Mantissas, MaxSamples) :
             ZScoreCall(value, values)
    \/ /\ sample = Idle
       /\ \E values \in SeqsUpTo(PercentileValues, MaxValues), p \in Percentiles :
             PercentileCall(values, p)
    \/ /\ sample = Idle
       /\ \E nodes \in SeqsUpTo(NetNodes, MaxNodes) : NetworkStatsCall(nodes)

SpecStats == InitStats /\ [][NextStats]_vars

(***************************************************************************)
(* The latency branch of the detector inside the pipeline                  *)
(***************************************************************************)
\* the latencies, in whole ms, one node reports from poll to poll: none
\* measured, a usual one, and an extreme one
PolledLatencies == {0, 100, 5000}

MaxSpikeCycles == 11

\* a poll cycle on one node whose latency changes from poll to poll
LatencyCycle(latency) ==
    /\ sample = Idle
    /\ cycles < MaxSpikeCycles
    /\ computeClientInsights(<<[SteadyNode("n1") EXCEPT !.latency = latency]>>, FALSE)
    /\ lastNodes' = <<[SteadyNode("n1") EXCEPT !.latency = latency]>>
    /\ cycles' = cycles + 1
    /\ now' = now + 1
    /\ UNCHANGED <<varied, hook, polls, tabs, inputVars, health, healthRef, detected, ingestVars>>

\* latencies that are no whole numbers: two neighbouring doubles
MeasuredLatencies == {Pow2(MantissaBits - 1), Pow2(MantissaBits - 1) + 1}

MaxMeasured == 10

\* the latency branch of detectAnomaliesForNode in a cycle whose history for
\* the node holds these latencies, the last of them being the node's own
MeasuredCall(values) ==
    /\ sample = Idle
    /\ cycles = 0
    /\ values # <<>>
    /\ sample' = [fn |-> "latencySpike", values |-> values,
                  spike |-> /\ Len(values) >= 4
                            /\ zScoreOfDoublesAtLeast(values[Len(values)], values, 5, 2),
                  high  |-> /\ Len(values) >= 4
                            /\ zScoreOfDoublesAtLeast(values[Len(values)], values, 3, 1)]
    /\ UNCHANGED <<now, pipelineVars, node, hist, prevNode, health, healthRef, detected, ingestVars>>

NextSpike ==
    \/ \E latency \in PolledLatencies : LatencyCycle(latency)
    \/ /\ sample = Idle /\ cycles = 0
       /\ \E values \in SeqsUpTo(MeasuredLatencies, MaxMeasured) : MeasuredCall(values)

SpecSpike == Init /\ [][NextSpike]_vars

(***************************************************************************)
(* lib/health: detectAnomalies, and api/ingest, api/alerts                 *)
(***************************************************************************)
\* lastSeenMs > bound, in minutes; NaN compares false
lastSeenOlderThan(n, at, minutes) ==
    n.lastSeen # InvalidDate /\ at - n.lastSeen > minutes

thresholdOffline(n) ==
    IF n.status = "offline"
    THEN <<Anomaly(n.id, "offline", "critical", None)>>
    ELSE <<>>

thresholdLatency(n) ==
    IF Truthy(n.latency) /\ n.latency > 1000
    THEN <<Anomaly(n.id, "latency_spike",
                   IF n.latency > 2000 THEN "high" ELSE "medium",
                   [latency |-> n.latency])>>
    ELSE <<>>

\* node.peerCount < previousNode.peerCount * 0.5
thresholdPeerDrop(n, previousNode) ==
    IF previousNode # None /\ 2 * n.peerCount < previousNode.peerCount
    THEN <<Anomaly(n.id, "peer_drop", "medium",
                   [previous |-> previousNode.peerCount, current |-> n.peerCount])>>
    ELSE <<>>

thresholdStorage(n) ==
    IF /\ Truthy(n.storageCapacity) /\ Truthy(n.storageUsed)
       /\ 100 * n.storageUsed > 95 * n.storageCapacity
    THEN <<Anomaly(n.id, "storage_anomaly", "high",
                   [used |-> n.storageUsed, capacity |-> n.storageCapacity])>>
    ELSE <<>>

thresholdLastSeen(n, at) ==
    IF lastSeenOlderThan(n, at, 60)
    THEN <<Anomaly(n.id, "offline",
                   IF lastSeenOlderThan(n, at, 1440) THEN "critical" ELSE "high",
                   [lastSeenMinutes |-> at - n.lastSeen])>>
    ELSE <<>>

detectAnomalies(n, previousNode, at) ==
    thresholdOffline(n) \o thresholdLatency(n) \o thresholdPeerDrop(n, previousNode)
    \o thresholdStorage(n) \o thresholdLastSeen(n, at)

\* previousNodesMap.get(id), built from the rows read before the loop
previousNodeOf(table, id, at) ==
    IF id \in DOMAIN table
    THEN [id |-> id, status |-> table[id].status, peerCount |-> table[id].peerCount,
          lastSeen |-> IF table[id].lastSeen = Absent THEN at ELSE table[id].lastSeen]
    ELSE None

\* prisma.nodeSnapshot.upsert
upsertSnapshot(table, n) ==
    [id \in (DOMAIN table) \cup {n.id} |->
        IF id = n.id
        THEN [status |-> n.status, peerCount |-> n.peerCount, lastSeen |-> n.lastSeen]
        ELSE table[id]]

RECURSIVE upsertAll(_, _)
upsertAll(table, nodes) ==
    IF nodes = <<>> THEN table ELSE upsertAll(upsertSnapshot(table, Head(nodes)), Tail(nodes))

\* prisma.alert.findFirst({nodeId, type, resolved: false, createdAt >= now - 1 hour})
existingAlert(table, id, type, at) ==
    \E i \in 1..Len(table) :
        /\ table[i].nodeId = id
        /\ table[i].type = type
        /\ ~table[i].resolved
        /\ table[i].createdAt >= at - 60

RECURSIVE newAlerts(_, _, _)
\* the anomalies of one node that find no existing alert
newAlerts(table, anomalies, at) ==
    IF anomalies = <<>> THEN <<>>
    ELSE (IF existingAlert(table, Head(anomalies).nodeId, Head(anomalies).type, at)
          THEN <<>>
          ELSE <<[nodeId |-> Head(anomalies).nodeId, type |-> Head(anomalies).type,
                  severity |-> Head(anomalies).severity]>>)
         \o newAlerts(table, Tail(anomalies), at)

RECURSIVE alertBatch(_, _, _, _)
\* the alerts array after the loop over the fetched nodes
alertBatch(table, previous, nodes, at) ==
    IF nodes = <<>> THEN <<>>
    ELSE newAlerts(table,
                   detectAnomalies(Head(nodes), previousNodeOf(previous, Head(nodes).id, at), at),
                   at)
         \o alertBatch(table, previous, Tail(nodes), at)

RECURSIVE createMany(_, _, _)
\* prisma.alert.createMany: the rows get the creation time of the insert
createMany(table, batch, at) ==
    IF batch = <<>> THEN table
    ELSE createMany(Append(table, [nodeId |-> Head(batch).nodeId, type |-> Head(batch).type,
                                   severity |-> Head(batch).severity, createdAt |-> at,
                                   acknowledged |-> FALSE, resolved |-> FALSE,
                                   resolvedAt |-> Absent]),
                    Tail(batch), at)

MaxIngests == 2

MaxPatches == 1

\* the node lists fetchAllpNodes delivers at an instant
IngestLists(at) ==
    { <<Node("n1", "offline", Absent, 0, Absent, Absent, Absent, at - 120)>>,
      <<Node("n1", "online", 1500, 12, 96, 100, 3600, at)>>,
      <<Node("n1", "online", 100, 3, 50, 100, 86400, at),
        Node("n2", "offline", Absent, 0, Absent, Absent, Absent, at)>>,
      <<Node("n2", "unknown", 2500, 12, 50, 100, Absent, InvalidDate)>> }

\* GET /api/ingest
Ingest(nodes, metrics) ==
    /\ ingested < MaxIngests
    /\ snapshotTable' = upsertAll(snapshotTable, nodes)
    /\ alertTable' = createMany(alertTable, alertBatch(alertTable, snapshotTable, nodes, now), now)
    /\ logTables' = [nodeHistory |-> logTables.nodeHistory + Len(nodes),
                     networkSnapshot |-> logTables.networkSnapshot + 1,
                     metricSnapshot |-> logTables.metricSnapshot + (IF metrics THEN 1 ELSE 0)]
    /\ ingested' = ingested + 1
    /\ UNCHANGED <<now, pipelineVars, inputVars, health, healthRef, detected, patched>>

\* PATCH /api/alerts {clearAll: true}
ClearAll ==
    /\ patched < MaxPatches
    /\ alertTable' = [i \in 1..Len(alertTable) |->
                         IF alertTable[i].resolved THEN alertTable[i]
                         ELSE [alertTable[i] EXCEPT !.resolved = TRUE, !.resolvedAt = now]]
    /\ patched' = patched + 1
    /\ UNCHANGED <<now, pipelineVars, inputVars, health, healthRef, detected,
                   snapshotTable, logTables, ingested>>

\* PATCH /api/alerts {id, acknowledged, resolved}; "undefined" leaves a field alone
Patch(i, acknowledged, resolved) ==
    /\ patched < MaxPatches
    /\ i \in 1..Len(alertTable)
    /\ alertTable' =
          [alertTable EXCEPT
              ![i].acknowledged = IF acknowledged = "undefined" THEN @ ELSE acknowledged = "true",
              ![i].resolved = IF resolved = "undefined" THEN @ ELSE resolved = "true",
              ![i].resolvedAt = IF resolved = "undefined" THEN @
                                ELSE IF resolved = "true" THEN now ELSE Absent]
    /\ patched' = patched + 1
    /\ UNCHANGED <<now, pipelineVars, inputVars, health, healthRef, detected,
                   snapshotTable, logTables, ingested>>

InitIngest ==
    /\ PipelineIdle /\ NothingCalled
    /\ node = Idle
    /\ hist = <<>>
    /\ now = 1500

NextIngest ==
    \/ \E nodes \in IngestLists(now), metrics \in BOOLEAN : Ingest(nodes, metrics)
    \/ ClearAll
    \/ \E i \in 1..Len(alertTable), a, r \in {"undefined", "true", "false"} : Patch(i, a, r)
    \/ \E t \in {1530, 1560, 1561} : Tick(t)

SpecIngest == InitIngest /\ [][NextIngest]_vars

\* the nodes given to detectAnomalies; they were last seen at minute 1500, or
\* carry a lastSeen that is no date
ThresholdNodes ==
    { Node("n1", st, la, pc, su[1], su[2], 3600, ls) :
        st \in Statuses,
        la \in {Absent, 0, 1000, 1050, 2000, 2050},
        pc \in {3, 5, 6, 10},
        su \in {<<Absent, Absent>>, <<95, 100>>, <<96, 100>>},
        ls \in {1500, InvalidDate} }

\* previousNodesMap.get(node.id): nothing, or the row of the cycle before
PreviousNodes ==
    {None} \cup { [id |-> "n1", status |-> "online", peerCount |-> pc, lastSeen |-> 1500] :
                     pc \in {10, 12} }

\* one hour is 60 minutes after lastSeen, 24 hours are 1440
ThresholdInstants == {1500, 1560, 1561, 2940, 2941}

\* the ingestion route evaluates detectAnomalies(node, previousNode)
ThresholdCall ==
    /\ detected = Idle
    /\ detected' = [by |-> "threshold",
                    anomalies |-> detectAnomalies(node, prevNode, now)]
    /\ UNCHANGED <<now, pipelineVars, inputVars, health, healthRef, ingestVars>>

InitThreshold ==
    /\ PipelineIdle
    /\ sample = Idle /\ health = Idle /\ healthRef = Idle /\ detected = Idle
    /\ node \in ThresholdNodes
    /\ hist = <<>>
    /\ prevNode \in PreviousNodes
    /\ now \in ThresholdInstants

NextThreshold == ThresholdCall

SpecThreshold == InitThreshold /\ [][NextThreshold]_vars

(***************************************************************************)
(* Properties of the rolling history                                       *)
(***************************************************************************)
\* the mapping under HISTORY_KEY, empty when the key holds no object
storedHistory == IF storage.kind = "json" THEN spread(storage.value).h ELSE <<>>

\* C1: every node id's snapshot sequence, in the store a cycle returns and in
\* the persisted store, has at most MAX_HISTORY entries
C1_HistoryBounded ==
    /\ \A id \in DOMAIN insights.history.h : Len(insights.history.h[id]) <= MAX_HISTORY
    /\ \A id \in DOMAIN storedHistory : Len(storedHistory[id]) <= MAX_HISTORY

\* a node has been appended more than MAX_HISTORY times and its sequence is full
C1_Witness ==
    \E id \in DOMAIN insights.log :
        /\ Len(insights.log[id]) > MAX_HISTORY
        /\ Len(insights.history.h[id]) = MAX_HISTORY

\* C2: once more than MAX_HISTORY snapshots were appended for a node id in
\* successive calls, its sequence holds exactly MAX_HISTORY entries, and they
\* are the most recently appended ones in their order of insertion
C2_NewestKeptInOrder ==
    /\ \A id \in DOMAIN insights.log :
          Len(insights.log[id]) > MAX_HISTORY =>
              /\ Len(insights.history.h[id]) = MAX_HISTORY
              /\ \A k \in 1..MAX_HISTORY :
                    insights.history.h[id][k]
                        = insights.log[id][Len(insights.log[id]) - MAX_HISTORY + k]
    /\ \A id \in DOMAIN chain :
          Len(chain[id]) > MAX_HISTORY =>
              /\ Len(storedHistory[id]) = MAX_HISTORY
              /\ \A k \in 1..MAX_HISTORY :
                    storedHistory[id][k] = chain[id][Len(chain[id]) - MAX_HISTORY + k]

\* two entries were evicted from a persisted sequence whose snapshots differ
C2_Witness ==
    \E id \in DOMAIN chain :
        /\ Len(chain[id]) = MAX_HISTORY + 2
        /\ id \in DOMAIN storedHistory
        /\ storedHistory[id][1] = chain[id][3]
        /\ storedHistory[id][1] # chain[id][1]

(***************************************************************************)
(* Properties of the scoring functions                                     *)
(***************************************************************************)
\* C3: the health score is an integer of 0..100 and the label is healthy
\* exactly from 80 up, warning exactly from 50 to 79, critical exactly below 50
C3_ScoreRangeAndLabel ==
    health # Idle =>
        LET r == health.result
        IN  /\ r.score \in 0..100
            /\ r.status = "healthy" <=> r.score >= 80
            /\ r.status = "warning" <=> (r.score >= 50 /\ r.score < 80)
            /\ r.status = "critical" <=> r.score < 50

\* a score on a cutoff: a node of unknown status held at the ceiling of 50
C3_Witness ==
    /\ health # Idle
    /\ health.result.score = 50
    /\ health.result.status = "warning"
    /\ health.node.status = "unknown"

\* C4: deriveRiskScore is 5 for every offline node, whatever its other fields
\* and whatever anomaly list it is given
C4_OfflineRiskIsFive ==
    (detected # Idle /\ node.status = "offline") => detected.risk = 5

\* an offline node that would otherwise collect every penalty
C4_Witness ==
    /\ detected # Idle
    /\ node.status = "offline"
    /\ node.latency > 2000
    /\ node.peerCount < 5
    /\ node.storageUsed = 98
    /\ Len(detected.anomalies) = 4
    /\ detected.risk = 5

latencySpikes(anomalies) ==
    {i \in 1..Len(anomalies) : anomalies[i].type = "latency_spike"}

\* C5: with at least 4 latency samples in the history and a z-score of the
\* current latency of at least 2.5 a latency_spike is emitted, high from a
\* z-score of 3 and medium below; with a z-score under 2.5 none is emitted
C5_LatencySpikeAtZ ==
    detected # Idle /\ detected.by = "detector" =>
        LET series == latencySeries(hist)
            spikes == latencySpikes(detected.anomalies)
            z25    == Defined(node.latency) /\ zScoreAtLeast(node.latency, series, 5, 2)
            z3     == Defined(node.latency) /\ zScoreAtLeast(node.latency, series, 3, 1)
        IN  /\ (Len(series) >= 4 /\ z25) =>
                /\ Cardinality(spikes) = 1
                /\ \A i \in spikes :
                      detected.anomalies[i].severity = IF z3 THEN "high" ELSE "medium"
            /\ ~z25 => spikes = {}

\* a spike of medium severity on four samples
C5_Witness ==
    /\ detected # Idle
    /\ detected.by = "detector"
    /\ Len(latencySeries(hist)) = 4
    /\ \E i \in latencySpikes(detected.anomalies) : detected.anomalies[i].severity = "medium"

\* C6: a cycle whose write fails does not raise, returns risk scores and
\* anomalies for every input node computed from the updated in-memory history,
\* and leaves the persisted store as it was; the cycle after it loads a history
\* without the snapshots of the failed cycle
C6_WriteFailureDegrades ==
    [][ /\ (/\ cycles' = cycles + 1
             /\ ~updateHistoryThrows(insights'.nodes, safeParseHistory(storage))
             /\ ~insights'.persisted) =>
            /\ ~insights'.threw
            /\ storage' = storage
            /\ insights'.history = updateHistory(insights'.nodes, safeParseHistory(storage), now)
            /\ DOMAIN insights'.riskScores = idsOf(insights'.nodes)
            /\ DOMAIN insights'.anomalyMap = idsOf(insights'.nodes)
            /\ \A id \in idsOf(insights'.nodes) :
                  /\ insights'.anomalyMap[id] =
                         detectAnomaliesForNode(nodeWithId(insights'.nodes, id),
                                                insights'.history.h[id])
                  /\ insights'.riskScores[id] =
                         deriveRiskScore(nodeWithId(insights'.nodes, id), insights'.anomalyMap[id])
        /\ (cycles' = cycles + 1 /\ cycles > 0 /\ ~insights.threw /\ ~insights.persisted) =>
            \A id \in DOMAIN spread(insights'.loaded).h :
                \A k \in 1..Len(insights'.loaded.h[id]) :
                    insights'.loaded.h[id][k].timestamp # insights.at
      ]_vars

\* a failed write at full length: the returned history moved on, the store did not
C6_Witness ==
    /\ cycles > MAX_HISTORY
    /\ ~insights.threw
    /\ ~insights.persisted
    /\ Len(insights.nodes) = 2
    /\ storage.kind = "json"
    /\ insights.history # storage.value

\* C7 (as claimed): whatever the key holds that is not a mapping from node id
\* to snapshot array, the load yields the empty store, and neither the load
\* nor the updateHistory after it throws
WellFormed(raw) ==
    /\ raw.kind = "json"
    /\ raw.value.t = "obj"
    /\ raw.value.scalars = {}

C7_CorruptLoadsEmpty ==
    /\ ~insights.threw
    /\ ~WellFormed(storage) => safeParseHistory(storage) = EmptyStore

recencyBand(n, at) ==
    IF n.lastSeen = InvalidDate THEN "unknown"
    ELSE IF at - n.lastSeen < 5 THEN "under 5"
    ELSE IF at - n.lastSeen < 15 THEN "under 15"
    ELSE IF at - n.lastSeen < 60 THEN "under 60"
    ELSE "60 or more"

\* C8 (as claimed): two calls with an identical node return identical results
C8_SameNodeSameResult ==
    (health # Idle /\ healthRef # Idle /\ health.node = healthRef.node) =>
        health.result = healthRef.result

\* C8 (amended): two calls with an identical node agree on the factors uptime,
\* latency, peerCount and storageUsage, and agree on the whole result when the
\* age of lastSeen at the two calls lies in the same recency band
C8_SameNodeSameBandSameResult ==
    (health # Idle /\ healthRef # Idle /\ health.node = healthRef.node) =>
        /\ health.result.factors.uptime36 = healthRef.result.factors.uptime36
        /\ health.result.factors.latency = healthRef.result.factors.latency
        /\ health.result.factors.peerCount = healthRef.result.factors.peerCount
        /\ health.result.factors.storageUsage = healthRef.result.factors.storageUsage
        /\ recencyBand(health.node, health.at) = recencyBand(healthRef.node, healthRef.at)
              => health.result = healthRef.result

\* two calls for one node at different instants of one band
C8_Witness ==
    /\ health # Idle
    /\ healthRef # Idle
    /\ health.node = healthRef.node
    /\ health.at > healthRef.at
    /\ recencyBand(health.node, health.at) = "under 15"
    /\ recencyBand(healthRef.node, healthRef.at) = "under 15"

\* C9: for the scenario node, at every lastSeen and with the anomalies the
\* history-based detector produces, the health factors are latency 40,
\* peerCount 50, storageUsage 30, the health status is critical, and the risk
\* score is below 40, in the high band
C9_Scenario ==
    /\ health # Idle =>
          /\ health.result.factors.latency = 40
          /\ health.result.factors.peerCount = 50
          /\ health.result.factors.storageUsage = 30
          /\ health.result.score < 50
          /\ health.result.status = "critical"
    /\ detected # Idle =>
          /\ detected.risk < 40
          /\ getRiskStatusLabel(detected.risk) = "high"

\* the scenario node just seen, scored against a history of four entries
C9_Witness ==
    /\ health # Idle
    /\ detected # Idle
    /\ health.result.factors.lastSeen = 100
    /\ Len(hist) = 4
    /\ detected.anomalies # <<>>

(***************************************************************************)
(* Properties of the alert table                                           *)
(***************************************************************************)
\* C10 (as claimed): no two unresolved alerts of one node and one type were
\* created within an hour of each other
C10_NoDuplicateAlertWithinHour ==
    \A i, j \in 1..Len(alertTable) :
        (/\ i < j
         /\ alertTable[i].nodeId = alertTable[j].nodeId
         /\ alertTable[i].type = alertTable[j].type
         /\ ~alertTable[i].resolved
         /\ ~alertTable[j].resolved)
        => alertTable[j].createdAt - alertTable[i].createdAt > 60

(***************************************************************************)
(* Properties of the statistics helpers                                    *)
(***************************************************************************)
identical(values) == \A i, j \in 1..Len(values) : values[i] = values[j]

\* C11 (as stated): stddev is 0 below two samples, zScore is 0 for every value
\* whenever stddev is 0, a series of identical values has stddev 0, and no
\* division by zero occurs.
C11_IdenticalSeriesHasZeroStddev ==
    sample # Idle /\ sample.fn = "zScore" =>
        /\ Len(sample.values) < 2 => sample.sigmaIsZero
        /\ sample.sigmaIsZero => sample.z.isZero
        /\ identical(sample.values) => sample.sigmaIsZero
        /\ ~sample.z.dividedByZero

\* C11 (amended): stddev is 0 below two samples, zScore is 0 for every value
\* whenever stddev is 0, a series of identical values whose sum is computed
\* without rounding has stddev 0, and no division by zero occurs.
C11_ZeroStddevGivesZeroZScore ==
    sample # Idle /\ sample.fn = "zScore" =>
        /\ Len(sample.values) < 2 => sample.sigmaIsZero
        /\ sample.sigmaIsZero => sample.z.isZero
        /\ identical(sample.values) /\ sumOfDoubles(0, sample.values) = SumSeq(sample.values)
              => sample.sigmaIsZero
        /\ ~sample.z.dividedByZero

\* a series of three identical values, summed exactly, and a different value
C11_Witness ==
    /\ sample # Idle /\ sample.fn = "zScore"
    /\ Len(sample.values) = 3
    /\ identical(sample.values)
    /\ sumOfDoubles(0, sample.values) = SumSeq(sample.values)
    /\ sample.value # sample.values[1]
    /\ sample.sigmaIsZero
    /\ sample.z.isZero

count(x, values) == Cardinality({i \in 1..Len(values) : values[i] = x})

\* C12: percentile(xs, p) is 0 for empty xs and otherwise the element of rank
\* k of xs sorted ascending, k the least integer with k >= p/100 * n kept
\* within 1..n (index k - 1 counting from 0); percentile([10,20,30,40], 50) = 20.
C12_PercentileNearestRank ==
    sample # Idle /\ sample.fn = "percentile" =>
        LET n == Len(sample.values)
            ranks == {k \in 1..n : 100 * k >= sample.p * n /\ 100 * (k - 1) < sample.p * n}
        IN  /\ Len(sample.sorted) = n
            /\ \A x \in PercentileValues : count(x, sample.sorted) = count(x, sample.values)
            /\ \A i \in 1..(n - 1) : sample.sorted[i] <= sample.sorted[i + 1]
            /\ n = 0 => sample.result = 0
            /\ n > 0 => \E k \in 1..n :
                  /\ k \in ranks \/ (ranks = {} /\ k = IF sample.p * n <= 0 THEN 1 ELSE n)
                  /\ sample.result = sample.sorted[k]
            /\ sample.sorted = <<10, 20, 30, 40>> /\ sample.p = 50 => sample.result = 20

\* the median of 40, 10, 30, 20 was taken
C12_Witness ==
    /\ sample # Idle /\ sample.fn = "percentile"
    /\ sample.values = <<40, 10, 30, 20>>
    /\ sample.p = 50
    /\ sample.result = 20

\* C13: calculateNetworkStats on an empty node list returns (it does not
\* raise) zero counts, zero storage totals, zero averages and two empty
\* distributions.
C13_EmptyListAllZero ==
    sample # Idle /\ sample.fn = "calculateNetworkStats" /\ sample.nodes = <<>> =>
        /\ sample.result.totalNodes = 0
        /\ sample.result.onlineNodes = 0
        /\ sample.result.offlineNodes = 0
        /\ sample.result.validatorCount = 0
        /\ sample.result.totalStorageCapacity = 0
        /\ sample.result.totalStorageUsed = 0
        /\ sample.result.averagePeerCount100 = 0
        /\ sample.result.averageLatency100 = 0
        /\ DOMAIN sample.result.versionDistribution = {}
        /\ DOMAIN sample.result.regionDistribution = {}

\* the statistics of the empty list were computed
C13_Witness ==
    /\ sample # Idle /\ sample.fn = "calculateNetworkStats"
    /\ sample.nodes = <<>>
    /\ sample.result.totalNodes = 0

\* where the major.minor prefix of a version ends: digits, a dot, digits, and
\* no digit after them
majorMinorEnds(version) ==
    {j \in 3..Len(version) :
        /\ j = Len(version) \/ version[j + 1] \notin Digits
        /\ \E i \in 1..(j - 2) :
              /\ version[i + 1] = "."
              /\ \A k \in 1..i : version[k] \in Digits
              /\ \A k \in (i + 2)..j : version[k] \in Digits}

\* the key the claim counts a version under
countsUnder(version, key) ==
    IF version = NoString \/ version = <<>> THEN key = unknown
    ELSE IF majorMinorEnds(version) # {}
         THEN \E j \in majorMinorEnds(version) : key = SubSeq(version, 1, j) \o <<".", "x">>
    ELSE key = version

\* C14: versions are grouped by major.minor with the patch discarded: a
\* version that starts with digits.digits counts under 'major.minor.x', any
\* other version under its own string, a missing one under 'unknown'; 3.0.0,
\* 3.0.12 and 3.1.0 give exactly {'3.0.x': 2, '3.1.x': 1}.
C14_VersionsGroupedByMajorMinor ==
    sample # Idle /\ sample.fn = "calculateNetworkStats" =>
        LET versions == [i \in 1..Len(sample.nodes) |-> sample.nodes[i].softwareVersion]
            dist == sample.result.versionDistribution
        IN  /\ \A i \in 1..Len(versions) : \E key \in DOMAIN dist : countsUnder(versions[i], key)
            /\ \A key \in DOMAIN dist :
                  dist[key] = Cardinality({i \in 1..Len(versions) : countsUnder(versions[i], key)})
            /\ versions = << <<"3", ".", "0", ".", "0">>, <<"3", ".", "0", ".", "1", "2">>,
                             <<"3", ".", "1", ".", "0">> >>
                  => dist = ( <<"3", ".", "0", ".", "x">> :> 2 @@ <<"3", ".", "1", ".", "x">> :> 1 )

\* 3.0.0, 3.0.12 and 3.1.0 were counted
C14_Witness ==
    /\ sample # Idle /\ sample.fn = "calculateNetworkStats"
    /\ Len(sample.nodes) = 3
    /\ sample.nodes[1].softwareVersion = <<"3", ".", "0", ".", "0">>
    /\ sample.nodes[2].softwareVersion = <<"3", ".", "0", ".", "1", "2">>
    /\ sample.nodes[3].softwareVersion = <<"3", ".", "1", ".", "0">>
    /\ sample.result.versionDistribution[<<"3", ".", "0", ".", "x">>] = 2

(***************************************************************************)
(* Properties of the evaluation cycle                                      *)
(***************************************************************************)
\* the series detectAnomaliesForNode receives for a node of the cycle that
\* produced these insights: history[node.id] || []
seriesGiven(result, id) == historyFor(result.history, id)

\* a computeClientInsights call that returned
CycleReturned == cycles' = cycles + 1 /\ ~insights'.threw

\* C15 (as stated): the series the detector receives ends with the snapshot of
\* the node's current values taken in this cycle, and its second-to-last entry,
\* if present, is the snapshot the prior cycle appended.
C15_PreviousIsPriorCycle ==
    [][ CycleReturned =>
          \A id \in idsOf(insights'.nodes) :
             LET series == seriesGiven(insights', id)
             IN  /\ Len(series) >= 1
                 /\ series[Len(series)] = toSnapshot(nodeWithId(insights'.nodes, id), now)
                 /\ Len(series) >= 2 =>
                       /\ cycles > 0 /\ ~insights.threw
                       /\ id \in idsOf(insights.nodes)
                       /\ series[Len(series) - 1] =
                              toSnapshot(nodeWithId(insights.nodes, id), insights.at)
      ]_vars

\* C15 (amended): the series the detector receives ends with the snapshot of
\* the node's current values taken in this cycle, and its second-to-last entry,
\* if present, is the newest entry the loaded store held for the node; that is
\* the snapshot of the prior cycle when the prior cycle had the node in its
\* list and its write succeeded.
C15_AppendedBeforeDetection ==
    [][ CycleReturned =>
          \A id \in idsOf(insights'.nodes) :
             LET series == seriesGiven(insights', id)
                 loaded == historyFor(spread(safeParseHistory(storage)), id)
             IN  /\ Len(series) >= 1
                 /\ series[Len(series)] = toSnapshot(nodeWithId(insights'.nodes, id), now)
                 /\ insights'.anomalyMap[id] =
                        detectAnomaliesForNode(nodeWithId(insights'.nodes, id), series)
                 /\ Len(series) >= 2 <=> Len(loaded) >= 1
                 /\ Len(series) >= 2 => series[Len(series) - 1] = loaded[Len(loaded)]
                 /\ (/\ cycles > 0 /\ ~insights.threw /\ insights.persisted
                     /\ id \in idsOf(insights.nodes)
                     /\ storage = StorageJson(insights.history)) =>
                       /\ Len(series) >= 2
                       /\ series[Len(series) - 1] =
                              toSnapshot(nodeWithId(insights.nodes, id), insights.at)
      ]_vars

\* a cycle whose detector saw this cycle's snapshot after the prior cycle's
C15_Witness ==
    /\ cycles >= 2
    /\ ~insights.threw
    /\ \E id \in idsOf(insights.nodes) :
          LET series == seriesGiven(insights, id)
          IN  /\ Len(series) >= 2
              /\ series[Len(series)] = toSnapshot(nodeWithId(insights.nodes, id), insights.at)
              /\ series[Len(series) - 1].timestamp = insights.at - 1
              /\ series[Len(series) - 1].status # series[Len(series)].status

\* the persisted sequence of a node
storedSeries(id) == IF id \in DOMAIN storedHistory THEN storedHistory[id] ELSE <<>>

\* the number of poll results that list the node
pollsWith(id) == Cardinality({k \in 1..Len(polls) : id \in idsOf(polls[k].nodes)})

\* C16: one snapshot per poll cycle and node: whatever sequence of node lists
\* reaches useClientAnalytics (new poll results, page changes, re-renders, a
\* list seen before), every poll result with nodes has had exactly one cycle
\* run on it and a node's history has one entry per poll result that lists it.
C16_OneSnapshotPerPollCycle ==
    /\ \A k \in 1..Len(polls) : polls[k].nodes # <<>> => polls[k].runs = 1
    /\ \A id \in NodeIds : Len(storedSeries(id)) = pollsWith(id)

\* both tabs loaded the store before either wrote it, and both have returned
Overlapped ==
    \A t \in Tabs : persistedIn(t) /\ tabs[t].loadedAfter = 0

\* C17: when two cycles both load the store before either persists, the store
\* after both have finished is exactly the one computed by the cycle that
\* persisted last: the snapshots the earlier one appended are not in it, and no
\* sequence is longer than 50.
C17_LastWriteWins ==
    Overlapped =>
        \A t, u \in Tabs :
            (t # u /\ tabs[t].wrote /\ (tabs[t].order > tabs[u].order \/ ~tabs[u].wrote)) =>
                /\ storage = StorageJson(tabs[t].history)
                /\ storedHistory = pushAll(spread(tabs[t].loaded).h, tabs[t].nodes, tabs[t].at)
                /\ \A id \in DOMAIN storedHistory :
                      /\ Len(storedHistory[id]) <= MAX_HISTORY
                      /\ \A k \in 1..Len(storedHistory[id]) :
                            storedHistory[id][k].timestamp # tabs[u].at

\* two overlapping cycles on a full history, both written, for the same node
C17_Witness ==
    /\ Overlapped
    /\ \A t \in Tabs : tabs[t].wrote /\ "n1" \in idsOf(tabs[t].nodes)
    /\ tabs["tab1"].order = 1
    /\ Len(storedSeries("n1")) = MAX_HISTORY
    /\ tabs["tab1"].history # tabs["tab2"].history
    /\ storage = StorageJson(tabs["tab2"].history)

\* the node sequences under the key when the cycle starts
loadedStore ==
    IF storage.kind = "json" /\ storage.value.t = "obj" THEN storage.value.h ELSE <<>>

loadedSeries(id) == IF id \in DOMAIN loadedStore THEN loadedStore[id] ELSE <<>>

\* C18: an updateHistory call appends exactly one snapshot for each node of its
\* input: a sequence of length L < 50 has length L + 1 afterwards, one of
\* length 50 stays at 50, and the last entry is the node's latency, peerCount,
\* storageUsed, storageCapacity, uptime and status with the call's timestamp.
C18_AppendsExactlyOne ==
    [][ CycleReturned =>
          \A i \in 1..Len(insights'.nodes) :
             LET n      == insights'.nodes[i]
                 before == loadedSeries(n.id)
                 after  == seriesGiven(insights', n.id)
             IN  /\ Len(before) < MAX_HISTORY =>
                       Len(after) = Len(before) + 1 /\ SubSeq(after, 1, Len(before)) = before
                 /\ Len(before) = MAX_HISTORY =>
                       Len(after) = MAX_HISTORY
                       /\ SubSeq(after, 1, MAX_HISTORY - 1) = SubSeq(before, 2, MAX_HISTORY)
                 /\ after[Len(after)] =
                       [timestamp |-> now, latency |-> n.latency, peerCount |-> n.peerCount,
                        storageUsed |-> n.storageUsed, storageCapacity |-> n.storageCapacity,
                        uptime |-> n.uptime, status |-> n.status]
      ]_vars

\* a call on a full sequence and on a new node at once
C18_Witness ==
    /\ cycles > MAX_HISTORY
    /\ ~insights.threw
    /\ Len(insights.nodes) = 2
    /\ Len(historyFor(spread(insights.loaded), "n1")) = MAX_HISTORY
    /\ Len(seriesGiven(insights, "n1")) = MAX_HISTORY
    /\ Len(historyFor(spread(insights.loaded), "n2")) = 0
    /\ Len(seriesGiven(insights, "n2")) = 1
    /\ seriesGiven(insights, "n2")[1].timestamp = insights.at

\* C19: updateHistory removes no node id from the store and leaves the sequence
\* of every id that is not in its input as it was, so the entries of a node no
\* longer observed stay in the store cycle after cycle.
C19_OtherNodesUntouched ==
    [][ CycleReturned =>
          /\ DOMAIN loadedStore \subseteq DOMAIN insights'.history.h
          /\ \A id \in DOMAIN loadedStore \ idsOf(insights'.nodes) :
                insights'.history.h[id] = loadedStore[id]
          /\ insights'.persisted =>
                \A id \in DOMAIN loadedStore \ idsOf(insights'.nodes) :
                   id \in DOMAIN storedHistory' /\ storedHistory'[id] = loadedStore[id]
      ]_vars

\* two cycles in a row without n2, whose entries are still stored
C19_Witness ==
    /\ cycles >= 2
    /\ ~insights.threw /\ insights.persisted
    /\ "n2" \notin idsOf(insights.nodes)
    /\ "n2" \in DOMAIN storedHistory
    /\ Len(storedHistory["n2"]) >= 1
    /\ storedHistory["n2"][Len(storedHistory["n2"])].timestamp < insights.at - 1
    /\ historyFor(spread(insights.loaded), "n2") = storedHistory["n2"]

(***************************************************************************)
(* Properties of the health score                                          *)
(***************************************************************************)
\* C20: the score starts at 100 and each applicable factor, in the order
\* uptime, latency, peer count, last-seen, storage, replaces the running score
\* by score * (1 - w) + factor * w with w = 0.3, 0.2, 0.2, 0.15, 0.15; the
\* uptime step is score * 0.7 + factor * 0.3 when uptime is present and is
\* skipped otherwise.
C20_BlendIsConvex ==
    health # Idle =>
        LET n       == health.node
            uptime  == IF Truthy(n.uptime)
                       THEN 7 * (100 * 36) + 3 * health.result.factors.uptime36
                       ELSE 10 * (100 * 36)
            latency == IF Defined(n.latency)
                       THEN 4 * uptime + health.result.factors.latency * 360
                       ELSE 5 * uptime
            peers   == 4 * latency + health.result.factors.peerCount * 1800
            seen    == 17 * peers + 3 * health.result.factors.lastSeen * 9000
            stored  == IF Truthy(n.storageCapacity) /\ Truthy(n.storageUsed)
                       THEN 17 * seen + 3 * health.result.factors.storageUsage * 180000
                       ELSE 20 * seen
        IN  health.result.score = roundScore(statusCeiling(stored, n))

\* C21: the status ceiling comes after all blending: an offline node scores at
\* most 20 and is labelled critical, a node of unknown status scores at most 50
\* and is never labelled healthy, whatever its other fields
C21_StatusCeilingAfterBlending ==
    health # Idle =>
        /\ health.node.status = "offline" =>
              /\ health.result.score <= 20
              /\ health.result.status = "critical"
        /\ health.node.status = "unknown" =>
              /\ health.result.score <= 50
              /\ health.result.status # "healthy"

\* an offline node whose every factor is 100 and that reports no uptime: the
\* blend alone gives 100, the ceiling holds it at 20
C21_Witness ==
    /\ health # Idle
    /\ health.node.status = "offline"
    /\ ~Truthy(health.node.uptime)
    /\ health.result.factors.latency = 100
    /\ health.result.factors.peerCount = 100
    /\ health.result.factors.lastSeen = 100
    /\ health.result.factors.storageUsage = 100
    /\ health.result.score = 20

(***************************************************************************)
(* Properties of the risk score                                            *)
(***************************************************************************)

withSeverity(anomalies, severity) ==
    Cardinality({i \in 1..Len(anomalies) : anomalies[i].severity = severity})

\* 100 minus 15 for status unknown, 30/18/10 for a latency above 2000/1000/500,
\* 20/10 for fewer than 5/10 peers, 25/12 for a storage usage above 95%/85%,
\* 10 for a short uptime, and the severity weight of every anomaly of the list,
\* clamped to 0..100
hundredMinusPenalties(n, anomalies, shortUptime) ==
    LET hasUsage == /\ Defined(n.storageUsed)
                    /\ Defined(n.storageCapacity)
                    /\ n.storageCapacity > 0
        penalties ==
            (IF n.status = "unknown" THEN 15 ELSE 0)
          + (IF ~Defined(n.latency) THEN 0
             ELSE IF n.latency > 2000 THEN 30
             ELSE IF n.latency > 1000 THEN 18
             ELSE IF n.latency > 500 THEN 10
             ELSE 0)
          + (IF n.peerCount < 5 THEN 20 ELSE IF n.peerCount < 10 THEN 10 ELSE 0)
          + (IF hasUsage /\ 100 * n.storageUsed > 95 * n.storageCapacity THEN 25
             ELSE IF hasUsage /\ 100 * n.storageUsed > 85 * n.storageCapacity THEN 12
             ELSE 0)
          + (IF shortUptime THEN 10 ELSE 0)
          + 35 * withSeverity(anomalies, "critical")
          + 20 * withSeverity(anomalies, "high")
          + 12 * withSeverity(anomalies, "medium")
          + 6 * withSeverity(anomalies, "low")
    IN  Max(0, Min(100, 100 - penalties))

\* C22 (as claimed): for a node that is not offline the risk score is 100 minus
\* the penalties, 10 of them for every uptime under 24 hours
C22_RiskIsHundredMinusPenalties ==
    (detected # Idle /\ node.status # "offline") =>
        detected.risk = hundredMinusPenalties(node, detected.anomalies,
                            Defined(node.uptime) /\ node.uptime < 24 * 3600)

\* C22 (amended): for a node that is not offline the risk score is 100 minus
\* the penalties, 10 of them for an uptime that is above 0 and under 24 hours
C22_RiskIsHundredMinusPenaltiesAboveZero ==
    (detected # Idle /\ node.status # "offline") =>
        detected.risk = hundredMinusPenalties(node, detected.anomalies,
                            Defined(node.uptime) /\ node.uptime > 0
                            /\ node.uptime < 24 * 3600)

\* a node of unknown status that reports an uptime of 0, scored with two
\* anomalies whose weights add up
C22_Witness ==
    /\ detected # Idle
    /\ node.status = "unknown"
    /\ node.uptime = 0
    /\ Len(detected.anomalies) = 2
    /\ detected.risk = hundredMinusPenalties(node, <<>>, FALSE) - 32
    /\ detected.risk > 0

(***************************************************************************)
(* Properties of the history-based detector                                *)
(***************************************************************************)
ofType(anomalies, type) == {i \in 1..Len(anomalies) : anomalies[i].type = type}

C24_PeerDropAgainstPrevious ==
    (detected # Idle /\ detected.by = "detector") =>
        LET drops    == ofType(detected.anomalies, "peer_drop")
            dropped  == /\ Len(hist) >= 2
                        /\ Defined(hist[Len(hist) - 1].peerCount)
                        /\ 10 * node.peerCount < 6 * hist[Len(hist) - 1].peerCount
        IN  /\ dropped <=> drops # {}
            /\ Cardinality(drops) <= 1
            /\ \A i \in drops :
                  /\ detected.anomalies[i].severity = "medium"
                  /\ detected.anomalies[i].details =
                         [previous |-> hist[Len(hist) - 1].peerCount,
                          current |-> node.peerCount]
            /\ Len(hist) <= 1 => drops = {}

\* a drop from 12 to 7 peers against the second-to-last entry, while the
\* newest entry holds a count the node has not dropped from
C24_Witness ==
    /\ detected # Idle
    /\ detected.by = "detector"
    /\ Len(hist) >= 2
    /\ hist[Len(hist) - 1].peerCount = 12
    /\ hist[Len(hist)].peerCount = 5
    /\ node.peerCount = 7
    /\ ofType(detected.anomalies, "peer_drop") # {}

\* the storage_anomaly entries of the last detector call: at most one; with
\* capacity and used present and a usage of at least 90% there is one of
\* severity high from 98% and medium below (for every history, or for the
\* non-empty ones only); one of severity low only under 90% and only when used
\* exceeds 1.2 times the second-to-last entry's storageUsed; none when
\* capacity or used is absent
storageAnomaliesAsStated(nonEmptyOnly) ==
    LET found   == ofType(detected.anomalies, "storage_anomaly")
        present == Defined(node.storageUsed) /\ Defined(node.storageCapacity)
        full    == present /\ 100 * node.storageUsed >= 90 * node.storageCapacity
        grew    == /\ Len(hist) >= 2
                   /\ Defined(hist[Len(hist) - 1].storageUsed)
                   /\ 10 * node.storageUsed > 12 * hist[Len(hist) - 1].storageUsed
    IN  /\ Cardinality(found) <= 1
        /\ (full /\ (nonEmptyOnly => hist # <<>>)) =>
              \E i \in found :
                  detected.anomalies[i].severity =
                      IF 100 * node.storageUsed >= 98 * node.storageCapacity
                      THEN "high" ELSE "medium"
        /\ \A i \in found :
              /\ detected.anomalies[i].severity \in {"high", "medium", "low"}
              /\ detected.anomalies[i].severity \in {"high", "medium"} => full
              /\ detected.anomalies[i].severity = "low" => present /\ ~full /\ grew
        /\ ~present => found = {}

thresholdsAsStated(storageSeverity) ==
    LET found(type) == ofType(detected.anomalies, type)
        usage95 == /\ Defined(node.storageUsed) /\ Defined(node.storageCapacity)
                   /\ 100 * node.storageUsed > 95 * node.storageCapacity
        age     == now - node.lastSeen
        stale   == node.lastSeen # InvalidDate /\ age > 60
    IN  /\ (Defined(node.latency) /\ node.latency > 1000) <=> found("latency_spike") # {}
        /\ \A i \in found("latency_spike") :
              detected.anomalies[i].severity = IF node.latency > 2000 THEN "high" ELSE "medium"
        /\ (prevNode # None /\ 2 * node.peerCount < prevNode.peerCount)
              <=> found("peer_drop") # {}
        /\ usage95 <=> found("storage_anomaly") # {}
        /\ \A i \in found("storage_anomaly") :
              detected.anomalies[i].severity = storageSeverity
        /\ stale <=> (\E i \in found("offline") : detected.anomalies[i].details # None)
        /\ \A i \in found("offline") :
              detected.anomalies[i].details # None =>
                  detected.anomalies[i].severity = IF age > 1440 THEN "critical" ELSE "high"

isMeanInHundredths(r, sum, selected) ==
    IF selected = 0 THEN r = 0
    ELSE /\ 2 * selected * r <= 200 * sum + selected
         /\ 200 * sum + selected < 2 * selected * (r + 1)

\* C27: averagePeerCount is the mean peerCount of the nodes with peerCount > 0
\* only, and 0 when there is none; averageLatency is the mean latency of the
\* nodes whose latency is defined, and 0 when there is none (both as returned,
\* to two decimals)
C27_AveragesOverSubsets ==
    (sample # Idle /\ sample.fn = "calculateNetworkStats") =>
        LET ns        == sample.nodes
            peered    == {i \in 1..Len(ns) : ns[i].peerCount > 0}
            timed     == {i \in 1..Len(ns) : Defined(ns[i].latency)}
            peers     == SumSeq([i \in 1..Len(ns) |->
                                    IF i \in peered THEN ns[i].peerCount ELSE 0])
            latencies == SumSeq([i \in 1..Len(ns) |->
                                    IF i \in timed THEN ns[i].latency ELSE 0])
        IN  /\ isMeanInHundredths(sample.result.averagePeerCount100, peers,
                                  Cardinality(peered))
            /\ isMeanInHundredths(sample.result.averageLatency100, latencies,
                                  Cardinality(timed))

\* three nodes with 5, 0 and 3 peers and latencies 100, undefined and 0: the
\* averages are 4 peers and 50 ms, over two nodes each
C27_Witness ==
    /\ sample # Idle /\ sample.fn = "calculateNetworkStats"
    /\ Len(sample.nodes) = 3
    /\ sample.nodes[1].peerCount = 5
    /\ sample.nodes[2].peerCount = 0 /\ ~Defined(sample.nodes[2].latency)
    /\ sample.nodes[3].peerCount = 3 /\ sample.nodes[3].latency = 0
    /\ sample.result.averagePeerCount100 = 400
    /\ sample.result.averageLatency100 = 5000

(***************************************************************************)
(* Properties of the latency spike inside the pipeline                     *)
(***************************************************************************)
\* in the last cycle no latency_spike was reported for a node whose history
\* holds fewer than spikeFrom non-zero latency samples, and none of severity
\* high with fewer than highFrom
polledSpikesNeed(spikeFrom, highFrom) ==
    (cycles > 0 /\ ~insights.threw) =>
        \A id \in idsOf(insights.nodes) :
            LET samples == Len(latencySeries(historyFor(insights.history, id)))
                spikes  == latencySpikes(insights.anomalyMap[id])
            IN  /\ samples < spikeFrom => spikes = {}
                /\ samples < highFrom =>
                      \A i \in spikes : insights.anomalyMap[id][i].severity # "high"

\* the same for the latency branch on measured latencies
measuredSpikesNeed(spikeFrom, highFrom) ==
    (sample # Idle /\ sample.fn = "latencySpike") =>
        /\ Len(sample.values) < spikeFrom => ~sample.spike
        /\ Len(sample.values) < highFrom => ~sample.high

\* C28 (as claimed): in a computeClientInsights cycle, where the current
\* latency is a member of the series it is scored against, no latency_spike is
\* reported for a node whose history holds fewer than 9 non-zero latency
\* samples, and none of severity high with fewer than 11, for any latencies
C28_SpikeNeedsNineSamples ==
    /\ polledSpikesNeed(9, 11)
    /\ measuredSpikesNeed(9, 11)

\* C28 (amended): for latencies in whole ms no latency_spike is reported with
\* fewer than 9 non-zero samples and none of severity high with fewer than 11;
\* for any latencies, none with fewer than 8 and none of severity high with
\* fewer than 10
C28_SpikeNeedsEightSamples ==
    /\ polledSpikesNeed(9, 11)
    /\ measuredSpikesNeed(8, 10)

\* a spike on 8 samples: seven equal latencies and the current one, the next
\* double above them
C28_Witness ==
    /\ sample # Idle /\ sample.fn = "latencySpike"
    /\ Len(sample.values) = 8
    /\ \A i \in 1..7 : sample.values[i] = Pow2(MantissaBits - 1)
    /\ sample.values[8] = Pow2(MantissaBits - 1) + 1
    /\ sample.spike
    /\ ~sample.high

readFails(raw) == raw.kind \in {"denied", "garbage"}

\* the store that holds one snapshot, taken at this time, for each node of the
\* list and nothing else
freshStore(nodes, timestamp) ==
    [t |-> "obj",
     h |-> [id \in idsOf(nodes) |-> <<toSnapshot(nodeWithId(nodes, id), timestamp)>>],
     scalars |-> {}]

\* C30: if a cycle's read of the persisted history fails or yields unparsable
\* data while its write succeeds, the persisted store after the cycle holds
\* exactly one snapshot for each node of the cycle's input and nothing else:
\* all earlier history, that of nodes not in the input included, is gone
C30_FailedReadOverwritesHistory ==
    [][ (CycleReturned /\ readFails(storage) /\ insights'.persisted) =>
            storage' = StorageJson(freshStore(insights'.nodes, insights'.at))
      ]_vars

\* after fifty cycles the key holds unparsable text; the next cycle, on n1
\* alone, leaves one snapshot of n1 under the key and nothing else
C30_Witness ==
    /\ cycles > MAX_HISTORY
    /\ ~insights.threw /\ insights.persisted
    /\ insights.read = "garbage"
    /\ idsOf(insights.nodes) = {"n1"}
    /\ storage = StorageJson(freshStore(insights.nodes, insights.at))
    /\ DOMAIN storage.value.h = {"n1"}
    /\ Len(storage.value.h["n1"]) = 1

====
